---- MODULE Spec2Model ----
(***************************************************************************)
(* Credential lifecycle and session keep-alive subsystem of token_manager: *)
(* the credential store (token_service.py, models.py), the connection      *)
(* registry (websocket_manager.py), the channel endpoint (server.py) and   *)
(* the keep-alive scheduler (token_keeper.py).                             *)
(*                                                                         *)
(* Strings are sequences of one-character strings, so that strip(), len()  *)
(* and the character allow-list are computed as the code computes them.    *)
(***************************************************************************)
EXTENDS Integers, Sequences, FiniteSets, TLC

VARIABLES
    tokens,       \* the rows of table "tokens" (models.Token)
    lastCall,     \* outcome of the latest TokenService call: value returned or error raised; where
                  \* TokenCrypto is called, that call: its argument and what it returned or raised
    connections,  \* WebSocketManager._connections: extension_id -> ConnectionInfo
    chans,        \* one websocket_endpoint invocation per channel: its position, locals and transport
    now,          \* wall clock (get_china_now), in seconds
    keeper,       \* TokenKeeper.run_keep_alive_cycle: position, locals and cycle_stats; where
                  \* notify_all_expired_tokens is called, the frame of that call
    notifyLog,    \* calls of notify_token_expired made by the cycle in progress, with their result
    sweep,        \* WebSocketManager._check_heartbeats: position, the expired_extensions list still to
                  \* disconnect, and the ids the latest sweep has disconnected; where the
                  \* heartbeat checker is started and stopped, the checker and its loop task
    deletePush,   \* delete_token's send_to_extension call: its target and how it ended
    lock,         \* WebSocketManager._lock: "free", or the operation that holds it while suspended
    mgr,          \* the latest direct call of WebSocketManager.disconnect / send_to_extension
    bcast,        \* WebSocketManager.broadcast: position and locals of the call
    sched         \* TokenKeeper._running, _task, the loop tasks created so far, and stop()'s position

apiVars == <<lock, mgr, bcast, sched>>

vars == <<tokens, lastCall, connections, chans, now, keeper, notifyLog, sweep, deletePush, apiVars>>

storeVars == <<tokens, lastCall>>
regVars   == <<connections, chans, sweep, deletePush>>

None == <<"None">>   \* Python None / SQL NULL of an Optional[str]: no string, since every character is one letter
NoId == 0           \* no row: rowids start at 1
NoTime == <<>>      \* a NULL DateTime column; a set one is <<t>>

----------------------------------------------------------------------------
(* Bounds of the model *)

MaxId == 2          \* rows are inserted while the next rowid is <= MaxId
MaxTime == 4        \* the clock stops advancing at MaxTime
MaxMsgs == 2        \* messages a channel handler reads after registration
MaxCalls == 3        \* calls of TokenService made from outside the subsystem
MaxCycles == 1      \* keep-alive cycles run
MaxTasks == 3        \* loop tasks start() creates
MaxStartStop == 5    \* calls of start() and stop()

----------------------------------------------------------------------------
(* Strings *)

RECURSIVE LStrip(_)
LStrip(s) == IF s # <<>> /\ Head(s) = " " THEN LStrip(Tail(s)) ELSE s

RECURSIVE RStrip(_)
RStrip(s) == IF s # <<>> /\ s[Len(s)] = " " THEN RStrip(SubSeq(s, 1, Len(s) - 1)) ELSE s

\* str.strip()
Strip(s) == RStrip(LStrip(s))

\* truth value of an Optional[str]: None and "" are false
Truthy(s) == s # None /\ s # <<>>

----------------------------------------------------------------------------
(* validators.py *)

MIN_TOKEN_LENGTH == 10
MAX_TOKEN_LENGTH == 500
MAX_USER_ID_LENGTH == 64

Letters == {"a", "b", "c", "d", "e", "f", "k", "n", "o", "r", "s", "t", "u", "x", "A", "Z"}
Digits  == {"0", "1", "2", "3", "4", "5", "6", "7", "8", "9"}
\* TOKEN_PATTERN = ^[A-Za-z0-9_\-\.=+/]+$
TOKEN_PATTERN(s) == s # <<>> /\ \A i \in 1..Len(s) : s[i] \in Letters \cup Digits \cup {"_", "-", ".", "=", "+", "/"}

\* validate_token: TRUE iff the first component of the returned tuple is True
validate_token(token) ==
    IF token = None THEN FALSE
    ELSE IF token = <<>> \/ Strip(token) = <<>> THEN FALSE
    ELSE IF Len(Strip(token)) < MIN_TOKEN_LENGTH THEN FALSE
    ELSE IF Len(Strip(token)) > MAX_TOKEN_LENGTH THEN FALSE
    ELSE TOKEN_PATTERN(Strip(token))

\* the second component of validate_token's tuple: the reason, "" when valid
validate_token_error_msg(token) ==
    IF token = None THEN "empty"
    ELSE IF token = <<>> \/ Strip(token) = <<>> THEN "blank"
    ELSE IF Len(Strip(token)) < MIN_TOKEN_LENGTH THEN "too_short"
    ELSE IF Len(Strip(token)) > MAX_TOKEN_LENGTH THEN "too_long"
    ELSE IF ~TOKEN_PATTERN(Strip(token)) THEN "illegal_characters"
    ELSE ""

\* a validate_user_id without the length limit
validate_user_id_unbounded(user_id) ==
    IF user_id = None THEN FALSE
    ELSE ~(user_id = <<>> \/ Strip(user_id) = <<>>)

validate_user_id(user_id) ==
    IF user_id = None THEN FALSE
    ELSE IF user_id = <<>> \/ Strip(user_id) = <<>> THEN FALSE
    ELSE Len(Strip(user_id)) <= MAX_USER_ID_LENGTH

----------------------------------------------------------------------------
(* crypto_utils.py: Fernet under the process-wide key.  A ciphertext is    *)
(* bound to the key that produced it; decrypt fails under any other key.   *)

ProcessKey == "key1"
ForeignKey == "key0"

encrypt_token(token) == [key |-> ProcessKey, data |-> token]

\* decrypt_token raises ValueError unless the ciphertext authenticates under the process key
decrypt_fails(encrypted_token) == encrypted_token.data = <<>> \/ encrypted_token.key # ProcessKey

decrypt_token(encrypted_token) == encrypted_token.data

(* TokenCrypto.encrypt and TokenCrypto.decrypt themselves (lines 40-76), with the Fernet  *)
(* token they build and take apart: base64(version | time | iv | AES-CBC body | HMAC).    *)
(* A byte has two bits here, a base64 digit one, and the body has blocks of two bytes.    *)
(* HMAC is a tag no other message and no other key produces: the message itself, closed   *)
(* by a 1 and filled up with 0, behind the signing key.                                    *)

\* the longest text the encryption is applied to
MaxText == 3

\* the characters of a text, each at the place of its code plus one
TextChars == <<"g", "A", "s", "_">>

\* the two digits of the base64 alphabet
B64Digits == <<"A", "g">>

\* a value kept to one byte
Byte(n) == n % Len(TextChars)

\* the first byte of every Fernet token (0x80: the high bit alone)
FERNET_VERSION == 2

\* the block of the cipher, in bytes
BlockSize == 2

\* str.encode(): the codes of the characters
Encode(text) == [i \in 1..Len(text) |-> CHOOSE b \in 0..(Len(TextChars) - 1) : TextChars[b + 1] = text[i]]

\* bytes.decode(): the characters of the codes
Decode(data) == [i \in 1..Len(data) |-> TextChars[data[i] + 1]]

\* base64.urlsafe_b64encode: two digits for each byte
urlsafe_b64encode(data) ==
    [i \in 1..(2 * Len(data)) |->
        LET b == data[(i + 1) \div 2]
        IN  IF i % 2 = 1 THEN B64Digits[(b \div 2) + 1] ELSE B64Digits[(b % 2) + 1]]

\* the characters base64.urlsafe_b64decode keeps: it discards every character outside
\* the alphabet before it decodes (validate=False)
B64Kept(s) ==
    LET IsDigit(ch) == \E d \in 1..Len(B64Digits) : B64Digits[d] = ch
    IN  SelectSeq(s, IsDigit)

\* base64.urlsafe_b64decode raises binascii.Error: the digits do not fill whole bytes
b64decode_fails(s) == Len(B64Kept(s)) % 2 = 1

urlsafe_b64decode(s) ==
    LET kept == B64Kept(s)
        digit(ch) == CHOOSE d \in 0..(Len(B64Digits) - 1) : B64Digits[d + 1] = ch
    IN  [j \in 1..(Len(kept) \div 2) |-> 2 * digit(kept[2 * j - 1]) + digit(kept[2 * j])]

\* Fernet.__init__: the key holds a signing key and an encryption key
signing_key(key) == IF key = ProcessKey THEN 1 ELSE 3
encryption_key(key) == IF key = ProcessKey THEN 1 ELSE 2

\* PKCS7: p bytes of value p bring the data to whole blocks, p in 1..BlockSize
pkcs7_pad(data) ==
    LET p == BlockSize - (Len(data) % BlockSize)
    IN  data \o [i \in 1..p |-> p]

pkcs7_unpad_fails(data) ==
    \/ data = <<>>
    \/ LET p == data[Len(data)]
       IN  \/ p \notin 1..BlockSize
           \/ p > Len(data)
           \/ \E i \in (Len(data) - p + 1)..Len(data) : data[i] # p

pkcs7_unpad(data) == SubSeq(data, 1, Len(data) - data[Len(data)])

\* AES in CBC mode: every byte is enciphered with the one before it, the first with the iv
cbc_encrypt(ek, iv, padded) ==
    LET c[i \in 0..Len(padded)] == IF i = 0 THEN iv ELSE Byte(padded[i] + c[i - 1] + ek)
    IN  [i \in 1..Len(padded) |-> c[i]]

cbc_decrypt(ek, iv, body) ==
    [i \in 1..Len(body) |->
        Byte(body[i] + 2 * Len(TextChars) - (IF i = 1 THEN iv ELSE body[i - 1]) - ek)]

\* the length of the HMAC
TagLen == 3 + BlockSize * ((MaxText \div BlockSize) + 1) + 2

hmac(sk, msg) == [i \in 1..TagLen |->
                    IF i = 1 THEN sk
                    ELSE IF i <= Len(msg) + 1 THEN msg[i - 1]
                    ELSE IF i = Len(msg) + 2 THEN 1 ELSE 0]

\* Fernet.encrypt at current_time with the iv drawn from os.urandom
fernet_encrypt(key, data, current_time, iv) ==
    LET basic_parts == <<FERNET_VERSION, current_time, iv>>
                            \o cbc_encrypt(encryption_key(key), iv, pkcs7_pad(data))
    IN  urlsafe_b64encode(basic_parts \o hmac(signing_key(key), basic_parts))

\* the parts of a decoded token: what precedes the last TagLen bytes, and those
TokenParts(data) == IF Len(data) > TagLen THEN SubSeq(data, 1, Len(data) - TagLen) ELSE <<>>
TokenTag(data) == IF Len(data) > TagLen THEN SubSeq(data, Len(data) - TagLen + 1, Len(data)) ELSE data
TokenBody(data) == SubSeq(TokenParts(data), 4, Len(TokenParts(data)))

\* Fernet.decrypt raises InvalidToken
fernet_decrypt_fails(key, token) ==
    \/ b64decode_fails(token)
    \/ LET data == urlsafe_b64decode(token)
       IN  \/ data = <<>>
           \/ data[1] # FERNET_VERSION
           \/ Len(data) < 2
           \/ TokenTag(data) # hmac(signing_key(key), TokenParts(data))
           \/ Len(TokenBody(data)) % BlockSize # 0
           \/ pkcs7_unpad_fails(cbc_decrypt(encryption_key(key), TokenParts(data)[3], TokenBody(data)))

fernet_decrypt(key, token) ==
    LET data == urlsafe_b64decode(token)
    IN  pkcs7_unpad(cbc_decrypt(encryption_key(key), TokenParts(data)[3], TokenBody(data)))

\* what a call returns or raises
Returns(value) == [outcome |-> "ok", value |-> value]
Raises(error) == [outcome |-> error, value |-> None]

\* an encrypt that hands the text back as its own ciphertext
encrypt_in_clear(key, token, current_time, iv) ==
    IF ~Truthy(token) THEN Raises("ValueError") ELSE Returns(token)

\* TokenCrypto(key).encrypt(token)
encrypt(key, token, current_time, iv) ==
    IF ~Truthy(token) THEN Raises("ValueError")
    ELSE Returns(fernet_encrypt(key, Encode(token), current_time, iv))

\* TokenCrypto(key).decrypt(encrypted_token)
decrypt(key, encrypted_token) ==
    IF ~Truthy(encrypted_token) THEN Raises("ValueError")
    ELSE IF fernet_decrypt_fails(key, encrypted_token) THEN Raises("ValueError")
    ELSE Returns(Decode(fernet_decrypt(key, encrypted_token)))

\* a mask_token that shows a secret of 16 characters
mask_token_from_16(token) ==
    IF ~Truthy(token) \/ Len(token) < 16 THEN <<"*", "*", "*", "*">>
    ELSE SubSeq(token, 1, 8) \o <<".", ".", ".">> \o SubSeq(token, Len(token) - 7, Len(token))

\* TokenCrypto.mask_token
mask_token(token) ==
    IF ~Truthy(token) \/ Len(token) <= 16 THEN <<"*", "*", "*", "*">>
    ELSE SubSeq(token, 1, 8) \o <<".", ".", ".">> \o SubSeq(token, Len(token) - 7, Len(token))

----------------------------------------------------------------------------
(* models.py: table "tokens" *)

ACTIVE  == "active"
EXPIRED == "expired"
INVALID == "invalid"
TokenStatus == {ACTIVE, EXPIRED, INVALID}

AGENT   == "agent"
NETWORK == "network"
AccountType == {AGENT, NETWORK}

Ids(rows) == {r.id : r \in rows}

Max(S) == CHOOSE x \in S : \A y \in S : y <= x
Min(S) == CHOOSE x \in S : \A y \in S : x <= y

\* INTEGER PRIMARY KEY of SQLite: the next rowid is one more than the largest in the table
NextRowId(rows) == IF rows = {} THEN 1 ELSE Max(Ids(rows)) + 1

\* Query.first() on a non-empty result: the matching row of least rowid
First(S) == CHOOSE r \in S : \A q \in S : r.id <= q.id

\* user_id = Column(String(64), unique=True, nullable=False): the INSERT is refused
UniqueViolation(rows, user_id) == \E r \in rows : r.user_id = user_id

Row(id, user_id, account, token_value, status, extension_id, account_type, last_active_at) ==
    [id |-> id, user_id |-> user_id, account |-> account, token_value |-> token_value,
     status |-> status, extension_id |-> extension_id, account_type |-> account_type,
     last_active_at |-> last_active_at]

\* the business key of a stored row: account, or user_id when no account is stored
BusinessKey(r) == IF Truthy(r.account) THEN r.account ELSE r.user_id

----------------------------------------------------------------------------
(* token_service.py: each operation maps the table to the value returned   *)
(* or the error raised, and the table after commit or rollback.            *)

Result(outcome, id, rows) == [outcome |-> outcome, id |-> id, rows |-> rows]

\* the rows create_or_update looks for: by account, and only when an account is given
FindExisting(rows, account) ==
    IF Truthy(account) THEN {r \in rows : r.account = account} ELSE {}

\* a table without the unique constraint on user_id
InsertNeverRefused(rows, user_id) == FALSE

\* the INSERT of create_or_update fails with IntegrityError on a duplicate user_id
InsertRefused(rows, user_id) == UniqueViolation(rows, user_id)

\* an update that leaves the status as it was
UpdatedKeepingStatus(existing, encrypted_token, extension_id) ==
    [existing EXCEPT !.token_value = encrypted_token, !.extension_id = extension_id]

\* lines 135-140: the existing row after the update
Updated(existing, encrypted_token, extension_id) ==
    [existing EXCEPT !.token_value = encrypted_token, !.status = ACTIVE, !.extension_id = extension_id]

\* a create_or_update whose failed commit leaves the new secret in the row it updated
create_or_update_without_rollback(rows, token, user_id, extension_id, account, account_type, dbFail) ==
    IF ~validate_token(token) \/ ~validate_user_id(user_id) THEN Result("ValidationError", NoId, rows)
    ELSE
        LET tok == Strip(token)
            acc == IF Truthy(account) THEN Strip(account) ELSE account
            uid == IF Truthy(account) THEN acc ELSE Strip(user_id)
            found == FindExisting(rows, acc)
        IN  IF found # {}
            THEN LET existing == First(found)
                     updated == Updated(existing, encrypt_token(tok), extension_id)
                 IN  Result(IF dbFail THEN "StorageError" ELSE "ok",
                            IF dbFail THEN NoId ELSE existing.id, (rows \ {existing}) \cup {updated})
            ELSE IF dbFail \/ InsertRefused(rows, uid) THEN Result("StorageError", NoId, rows)
                 ELSE Result("ok", NextRowId(rows),
                             rows \cup {Row(NextRowId(rows), uid, acc, encrypt_token(tok), ACTIVE,
                                            extension_id, account_type, NoTime)})

\* the second component of validate_user_id's tuple
validate_user_id_error_msg(user_id) ==
    IF user_id = None THEN "empty"
    ELSE IF user_id = <<>> \/ Strip(user_id) = <<>> THEN "blank"
    ELSE IF Len(Strip(user_id)) > MAX_USER_ID_LENGTH THEN "too_long"
    ELSE ""

\* lines 102-112: the message of the TokenValidationError create_or_update raises, ""
\* when it raises none
create_or_update_error_msg(token, user_id) ==
    IF ~validate_token(token) THEN validate_token_error_msg(token)
    ELSE IF ~validate_user_id(user_id) THEN validate_user_id_error_msg(user_id)
    ELSE ""

create_or_update(rows, token, user_id, extension_id, account, account_type, dbFail) ==
    IF ~validate_token(token) THEN Result("ValidationError", NoId, rows)
    ELSE IF ~validate_user_id(user_id) THEN Result("ValidationError", NoId, rows)
    ELSE
        LET tok == Strip(token)
            acc == IF Truthy(account) THEN Strip(account) ELSE account
            uid == IF Truthy(account) THEN acc ELSE Strip(user_id)
            encrypted_token == encrypt_token(tok)
            found == FindExisting(rows, acc)
        IN  IF found # {}
            THEN LET existing == First(found)
                     updated == Updated(existing, encrypted_token, extension_id)
                 IN  IF dbFail THEN Result("StorageError", NoId, rows)
                     ELSE Result("ok", existing.id, (rows \ {existing}) \cup {updated})
            ELSE IF dbFail \/ InsertRefused(rows, uid) THEN Result("StorageError", NoId, rows)
                 ELSE Result("ok", NextRowId(rows),
                             rows \cup {Row(NextRowId(rows), uid, acc, encrypted_token, ACTIVE,
                                            extension_id, account_type, NoTime)})

get_by_id(rows, token_id) == {r \in rows : r.id = token_id}

get_by_user(rows, user_id) == {r \in rows : r.user_id = Strip(user_id)}

\* get_all(include_expired=False), in rowid order
RECURSIVE InIdOrder(_)
InIdOrder(S) == IF S = {} THEN <<>> ELSE <<First(S)>> \o InIdOrder(S \ {First(S)})

get_active_tokens(rows) == InIdOrder({r \in rows : r.status = ACTIVE})

\* a delete that reports success for an id that is not stored
delete_of_absent_succeeds(rows, token_id, dbFail) ==
    IF dbFail THEN Result("StorageError", NoId, rows)
    ELSE Result("ok", token_id, rows \ get_by_id(rows, token_id))

delete(rows, token_id, dbFail) ==
    IF get_by_id(rows, token_id) = {} THEN Result("NotFoundError", NoId, rows)
    ELSE IF dbFail THEN Result("StorageError", NoId, rows)
    ELSE Result("ok", token_id, rows \ get_by_id(rows, token_id))

update_status(rows, token_id, status, dbFail) ==
    IF get_by_id(rows, token_id) = {} THEN Result("NotFoundError", NoId, rows)
    ELSE IF dbFail THEN Result("StorageError", NoId, rows)
    ELSE Result("ok", token_id,
                {IF r.id = token_id THEN [r EXCEPT !.status = status] ELSE r : r \in rows})

\* a call that commits without setting the timestamp
update_last_active_untouched(rows, token_id, t, dbFail) ==
    IF get_by_id(rows, token_id) = {} THEN Result("NotFoundError", NoId, rows)
    ELSE IF dbFail THEN Result("StorageError", NoId, rows)
    ELSE Result("ok", token_id, rows)

update_last_active(rows, token_id, t, dbFail) ==
    IF get_by_id(rows, token_id) = {} THEN Result("NotFoundError", NoId, rows)
    ELSE IF dbFail THEN Result("StorageError", NoId, rows)
    ELSE Result("ok", token_id,
                {IF r.id = token_id THEN [r EXCEPT !.last_active_at = <<t>>] ELSE r : r \in rows})

----------------------------------------------------------------------------
(* message_protocol.py.  A raw message is text that json.loads rejects     *)
(* (Garbage) or a JSON object: a function from its keys to their values.   *)

REGISTER      == "register"
TOKEN_UPLOAD  == "token_upload"
HEARTBEAT     == "heartbeat"
REGISTER_ACK  == "register_ack"
TOKEN_ACK     == "token_ack"
TOKEN_EXPIRED == "token_expired"
TOKEN_DELETED == "token_deleted"
HEARTBEAT_ACK == "heartbeat_ack"
ERROR         == "error"
MessageType == {REGISTER, TOKEN_UPLOAD, HEARTBEAT, REGISTER_ACK, TOKEN_ACK,
                TOKEN_EXPIRED, TOKEN_DELETED, HEARTBEAT_ACK, ERROR}

TokenSource == {"response", "cookie", "localStorage"}

Garbage == [json |-> FALSE]
Json(obj) == [json |-> TRUE, obj |-> obj]

\* JSON text that is a number, true, false or null: json.loads returns a value that is
\* no container
JsonScalar == [json |-> TRUE]

\* parse_message raises MessageParseError
parse_fails(raw) == ~raw.json

\* validate_message line 364: "type" not in message raises TypeError when the parsed
\* value is no container
validate_message_type_error(raw) == raw.json /\ "obj" \notin DOMAIN raw

\* validate_message raises MessageValidationError
validate_message_fails(message) ==
    \/ "type" \notin DOMAIN message
    \/ "timestamp" \notin DOMAIN message
    \/ "payload" \notin DOMAIN message
    \/ message.type \notin MessageType

\* validate_register_payload raises MessageValidationError
validate_register_payload_fails(payload) ==
    \/ "extensionId" \notin DOMAIN payload
    \/ ~Truthy(payload.extensionId)

\* validate_token_upload_payload raises MessageValidationError
validate_token_upload_payload_fails(payload) ==
    \/ "token" \notin DOMAIN payload
    \/ ~Truthy(payload.token)
    \/ "userId" \notin DOMAIN payload
    \/ ~Truthy(payload.userId)
    \/ ("source" \in DOMAIN payload /\ payload.source \notin TokenSource)

\* validate_heartbeat_payload raises MessageValidationError
validate_heartbeat_payload_fails(payload) == "extensionId" \notin DOMAIN payload

\* dict.get(key): None when the key is absent
Get(payload, key) == IF key \in DOMAIN payload THEN payload[key] ELSE None

\* the envelopes the server sends, by type and what the claims read of the payload
Envelope(type, about) == [type |-> type, about |-> about]

----------------------------------------------------------------------------
(* websocket_manager.py *)

WS_HEARTBEAT_INTERVAL == 1      \* heartbeat_interval of WebSocketManager.__init__

\* timeout_threshold of _heartbeat_loop
TimeoutThreshold == WS_HEARTBEAT_INTERVAL * 3

ConnectionInfo(websocket, extension_id, t) ==
    [websocket |-> websocket, extension_id |-> extension_id, user_id |-> None, last_heartbeat |-> t]

\* WebSocketManager._connections is a dict: it keeps its keys in the order they were first
\* inserted, which is the order get_connection_by_user and _check_heartbeats iterate in.
\* It is the sequence of its values, each carrying its key extension_id.
Keys(conns) == {conns[i].extension_id : i \in 1..Len(conns)}

\* extension_id in self._connections
Has(conns, extension_id) == extension_id \in Keys(conns)

IndexOf(conns, extension_id) == CHOOSE i \in 1..Len(conns) : conns[i].extension_id = extension_id

\* self._connections[extension_id]
Lookup(conns, extension_id) == conns[IndexOf(conns, extension_id)]

\* self._connections.pop(extension_id)
Pop(conns, extension_id) ==
    LET i == IndexOf(conns, extension_id)
    IN  SubSeq(conns, 1, i - 1) \o SubSeq(conns, i + 1, Len(conns))

\* self._connections[extension_id] = conn_info: in place when the key is there, else at the end
Put(conns, extension_id, conn_info) ==
    IF Has(conns, extension_id)
    THEN [conns EXCEPT ![IndexOf(conns, extension_id)] = conn_info]
    ELSE Append(conns, conn_info)

\* WebSocket.close() by the server: the transport is closed, later sends on it raise
Close(chs, c) == [chs EXCEPT ![c].open = FALSE]

\* WebSocket.send_json succeeds on an open transport and appends to what the peer receives
CanSend(chs, c) == chs[c].open

\* a send that delivers the envelope twice
send_json_twice(chs, c, envelope) == [chs EXCEPT ![c].sent = Append(Append(@, envelope), envelope)]

\* a send that delivers nothing
send_json_lost(chs, c, envelope) == chs

\* websocket.send_json(message)
Send(chs, c, envelope) == [chs EXCEPT ![c].sent = Append(@, envelope)]

\* a disconnect that leaves the registry as it is
disconnect_keeps_entry(conns, extension_id) == conns

\* disconnect, on the registry: the entry is popped when present
disconnect_conns(conns, extension_id) ==
    IF ~Has(conns, extension_id) THEN conns ELSE Pop(conns, extension_id)

\* disconnect, on the transports: the popped entry's websocket is closed
disconnect_chans(conns, chs, extension_id) ==
    IF ~Has(conns, extension_id) THEN chs ELSE Close(chs, Lookup(conns, extension_id).websocket)

\* connect, after accept(): a prior entry's websocket is closed, then the new entry is stored
connect_chans(conns, chs, extension_id) ==
    IF Has(conns, extension_id) THEN Close(chs, Lookup(conns, extension_id).websocket) ELSE chs

connect_conns(conns, websocket, extension_id, t) ==
    Put(conns, extension_id, ConnectionInfo(websocket, extension_id, t))

\* websocket_endpoint line 421: the entry is stored directly, whatever was there
endpoint_register_conns(conns, websocket, extension_id, t) ==
    Put(conns, extension_id, ConnectionInfo(websocket, extension_id, t))

endpoint_register_chans(conns, chs, extension_id) == chs

\* update_heartbeat
update_heartbeat(conns, extension_id, t) ==
    IF ~Has(conns, extension_id) THEN conns
    ELSE [conns EXCEPT ![IndexOf(conns, extension_id)].last_heartbeat = t]

\* set_user_id
set_user_id(conns, extension_id, user_id) ==
    IF ~Has(conns, extension_id) THEN conns
    ELSE [conns EXCEPT ![IndexOf(conns, extension_id)].user_id = user_id]

\* a registry that finds nobody
get_no_connection_by_user(conns, user_id) == <<>>

\* get_connection_by_user: the first entry bound to user_id, as a sequence of at most one
get_connection_by_user(conns, user_id) ==
    LET hits == SelectSeq(conns, LAMBDA ci : ci.user_id = user_id)
    IN  IF hits = <<>> THEN <<>> ELSE <<Head(hits)>>

\* the test of _check_heartbeats on one entry
HeartbeatTimedOut(conn_info, t) == t - conn_info.last_heartbeat > TimeoutThreshold

\* expired_extensions of _check_heartbeats, in dict order
RECURSIVE ExtIdsOf(_)
ExtIdsOf(conns) == IF conns = <<>> THEN <<>> ELSE <<Head(conns).extension_id>> \o ExtIdsOf(Tail(conns))

ExpiredExtensions(conns, t) == ExtIdsOf(SelectSeq(conns, LAMBDA ci : HeartbeatTimedOut(ci, t)))

----------------------------------------------------------------------------
(* Inputs *)

U1 == <<"u", "1">>
U2 == <<"u", "2">>
UserIds == {U1, U2}

S1 == <<"s", "e", "c", "r", "e", "t", "_", "0", "0", "1">>
S2 == <<"s", "e", "c", "r", "e", "t", "_", "0", "0", "2">>
TooShort == <<"b", "a", "d">>
Secrets == {S1, S2}

E1 == <<"e", "1">>
E2 == <<"e", "2">>
ExtIds == {E1, E2}

Channels == {"c1", "c2"}

\* what a keep-alive probe can come back with: an exception of the HTTP client, or a response
Timeout      == [kind |-> "timeout", status_code |-> 0, body |-> "none"]
NetworkError == [kind |-> "request_error", status_code |-> 0, body |-> "none"]
ProbeCrash   == [kind |-> "exception", status_code |-> 0, body |-> "none"]
Http(status_code, body) == [kind |-> "http", status_code |-> status_code, body |-> body]
\* body: "succ" carries code == 1 or succ == true, "refused" is JSON without either, "text" is no JSON
Responses == {Timeout, NetworkError, ProbeCrash,
              Http(200, "succ"), Http(200, "refused"), Http(200, "text"), Http(204, "text"),
              Http(302, "text"), Http(401, "text"), Http(403, "text"), Http(500, "text")}

----------------------------------------------------------------------------
(* token_keeper.py: classification of a probe *)

HTTP_UNAUTHORIZED == 401
HTTP_FORBIDDEN == 403

\* a classification that takes every error status for a rejection
check_response_validity_strict(status_code) == status_code < 400

\* _check_response_validity
check_response_validity(status_code) ==
    IF status_code = HTTP_UNAUTHORIZED THEN FALSE
    ELSE IF status_code = HTTP_FORBIDDEN THEN FALSE
    ELSE TRUE

\* check_token_validity, on what http_client.get came back with (ProbeCrash propagates)
check_token_validity(resp) ==
    IF resp.kind = "timeout" THEN TRUE
    ELSE IF resp.kind = "request_error" THEN TRUE
    ELSE check_response_validity(resp.status_code)

\* check_network_token_validity, on what http_client.post came back with
check_network_token_validity(resp) ==
    IF resp.kind = "timeout" THEN TRUE
    ELSE IF resp.kind = "request_error" THEN TRUE
    ELSE IF resp.status_code = HTTP_UNAUTHORIZED THEN FALSE
    ELSE IF resp.status_code = HTTP_FORBIDDEN THEN FALSE
    ELSE IF resp.status_code = 200 /\ resp.body # "text" THEN resp.body = "succ"
    ELSE TRUE

\* keep_alive: is_valid for the account type
is_valid(account_type, resp) ==
    IF account_type = NETWORK THEN check_network_token_validity(resp)
    ELSE check_token_validity(resp)

----------------------------------------------------------------------------
(* State *)

NoCall == [seq |-> 0, op |-> "none", outcome |-> "none", id |-> NoId,
           key |-> None, token |-> None, fault |-> FALSE]

NoSend == [extension_id |-> None, websocket |-> "none", user_id |-> None, result |-> "none"]

NoProbe == [i |-> 0, id |-> NoId, account_type |-> AGENT, resp |-> Timeout, fault |-> FALSE]

KeeperIdle == [pc |-> "idle", active_tokens |-> <<>>, i |-> 1,
               cycle_stats |-> [total |-> 0, success |-> 0, failed |-> 0, expired |-> 0],
               token |-> None, send |-> <<>>, last |-> NoProbe, outcomes |-> <<>>, cycles |-> 0]

FreshChan == [pc |-> "idle", extension_id |-> None, open |-> FALSE, first |-> "none",
              sent |-> <<>>, reads |-> 0]

SweepIdle == [pc |-> "idle", expired_extensions |-> <<>>, evicted |-> <<>>]

\* no direct call of the registry made yet
NoMgr == [calls |-> 0, op |-> "none", extension_id |-> None, websocket |-> "none",
          popped |-> "none", result |-> "none"]

\* no broadcast under way
BcastIdle == [pc |-> "idle", exclude |-> {}, targets |-> <<>>, i |-> 1, success_count |-> 0,
              failed_extensions |-> <<>>, attempts |-> <<>>, evicted |-> <<>>, result |-> 0]

\* TokenKeeper.__init__: not running, no task
SchedIdle == [running |-> FALSE, task |-> 0, tasks |-> <<>>, stop |-> "idle", last |-> "none", calls |-> 0]

\* a row left in the table by an earlier run of the service under another encryption key
LegacyRow == Row(1, U2, None, [key |-> ForeignKey, data |-> S1], ACTIVE, None, AGENT, NoTime)

Init ==
    /\ tokens = {}
    /\ lastCall = NoCall
    /\ connections = <<>>
    /\ chans = [c \in Channels |-> FreshChan]
    /\ now = 0
    /\ keeper = KeeperIdle
    /\ notifyLog = <<>>
    /\ sweep = SweepIdle
    /\ deletePush = NoSend
    /\ lock = "free"
    /\ mgr = NoMgr
    /\ bcast = BcastIdle
    /\ sched = SchedIdle

\* the service starts on a table that may hold a row of an earlier run
InitOnOldTable ==
    /\ tokens \in {{}, {LegacyRow}}
    /\ lastCall = NoCall
    /\ connections = <<>>
    /\ chans = [c \in Channels |-> FreshChan]
    /\ now = 0
    /\ keeper = KeeperIdle
    /\ notifyLog = <<>>
    /\ sweep = SweepIdle
    /\ deletePush = NoSend
    /\ lock = "free"
    /\ mgr = NoMgr
    /\ bcast = BcastIdle
    /\ sched = SchedIdle

----------------------------------------------------------------------------
(* The session's identity map: the Token objects run_keep_alive_cycle holds are the       *)
(* session's own.  An object whose row is there reads the row's committed values (every   *)
(* commit expires it); an object deleted through the session is detached with the values  *)
(* it had.                                                                                 *)

Held(r) == [id |-> r.id, detached |-> <<>>]

RowOf(rows, id) == CHOOSE r \in rows : r.id = id

Current(rows, held) == IF held.detached # <<>> THEN held.detached[1] ELSE RowOf(rows, held.id)

\* session.delete + commit: the objects of the deleted rows are detached
Detach(k, rows, gone) ==
    [k EXCEPT !.active_tokens =
        [j \in DOMAIN @ |-> IF @[j].detached = <<>> /\ @[j].id \in gone
                            THEN [id |-> @[j].id, detached |-> <<RowOf(rows, @[j].id)>>]
                            ELSE @[j]]]

----------------------------------------------------------------------------
(* Calls of TokenService from outside the subsystem (the REST API, a script) *)

Called(op, res, key, token, fault) ==
    [seq |-> lastCall.seq + 1, op |-> op, outcome |-> res.outcome, id |-> res.id,
     key |-> key, token |-> token, fault |-> fault]

\* the business key a create_or_update call names: the account, or the user_id when none is given
CallKey(user_id, account) ==
    IF Truthy(account) THEN Strip(account)
    ELSE IF user_id = None THEN None ELSE Strip(user_id)

CreateOrUpdate(token, user_id, extension_id, account, account_type, dbFail) ==
    LET res == create_or_update(tokens, token, user_id, extension_id, account, account_type, dbFail)
    IN  /\ lastCall.seq < MaxCalls
        /\ \A r \in res.rows : r.id <= MaxId
        /\ tokens' = res.rows
        /\ lastCall' = Called("create_or_update", res, CallKey(user_id, account),
                              IF token = None THEN None ELSE Strip(token), dbFail)
        /\ UNCHANGED <<connections, chans, now, keeper, notifyLog, sweep, deletePush, apiVars>>

Delete(token_id, dbFail) ==
    LET res == delete(tokens, token_id, dbFail)
    IN  /\ lastCall.seq < MaxCalls
        /\ tokens' = res.rows
        /\ lastCall' = Called("delete", res, None, None, dbFail)
        /\ keeper' = Detach(keeper, tokens, Ids(tokens) \ Ids(res.rows))
        /\ UNCHANGED <<connections, chans, now, notifyLog, sweep, deletePush, apiVars>>

UpdateStatus(token_id, status, dbFail) ==
    LET res == update_status(tokens, token_id, status, dbFail)
    IN  /\ lastCall.seq < MaxCalls
        /\ tokens' = res.rows
        /\ lastCall' = Called("update_status", res, None, None, dbFail)
        /\ UNCHANGED <<connections, chans, now, keeper, notifyLog, sweep, deletePush, apiVars>>

UpdateLastActive(token_id, dbFail) ==
    LET res == update_last_active(tokens, token_id, now, dbFail)
    IN  /\ lastCall.seq < MaxCalls
        /\ tokens' = res.rows
        /\ lastCall' = Called("update_last_active", res, None, None, dbFail)
        /\ UNCHANGED <<connections, chans, now, keeper, notifyLog, sweep, deletePush, apiVars>>

----------------------------------------------------------------------------
(* token_keeper.py: run_keep_alive_cycle.  It suspends while a probe is in  *)
(* flight (pc "probing") and while a notification is being sent (pc         *)
(* "sending"); everything between two suspensions is one step.              *)

\* a cycle that counts a credential whose probe was rejected both expired and failed
CountTwice(k, bucket) ==
    [k EXCEPT !.cycle_stats[bucket] = @ + 1,
              !.cycle_stats["failed"] = IF bucket = "expired" THEN @ + 1 ELSE @,
              !.outcomes = Append(@, bucket), !.i = @ + 1]

Count(k, bucket) == [k EXCEPT !.cycle_stats[bucket] = @ + 1, !.outcomes = Append(@, bucket), !.i = @ + 1]

\* the for loop from token k.i on, up to the next probe: a token whose secret does not decrypt
\* is counted failed and the loop goes on; after the last token the cycle returns
RECURSIVE NextToken(_, _)
NextToken(k, rows) ==
    IF k.i > Len(k.active_tokens) THEN [k EXCEPT !.pc = "done", !.token = None, !.send = <<>>]
    ELSE LET token == Current(rows, k.active_tokens[k.i])
         IN  IF decrypt_fails(token.token_value)
             THEN NextToken(Count(k, "failed"), rows)
             ELSE [k EXCEPT !.pc = "probing", !.token = decrypt_token(token.token_value), !.send = <<>>]

\* lines 225-253: fetch the ACTIVE rows and start on the first
CycleStart ==
    /\ keeper.pc \in {"idle", "done"}
    /\ keeper.cycles < MaxCycles
    /\ LET active_tokens == get_active_tokens(tokens)
           k == [KeeperIdle EXCEPT !.active_tokens = [j \in DOMAIN active_tokens |-> Held(active_tokens[j])],
                                   !.cycle_stats.total = Len(active_tokens),
                                   !.cycles = keeper.cycles + 1]
       IN  keeper' = NextToken(k, tokens)
    /\ notifyLog' = <<>>
    /\ UNCHANGED <<tokens, lastCall, connections, chans, now, sweep, deletePush, apiVars>>

\* a keep_alive that writes the timestamp whatever the probe says
keep_alive_never_expires(rows, token_id, account_type, resp, t, dbFail) ==
    IF resp.kind = "exception" THEN Result("ProbeError", NoId, rows)
    ELSE update_last_active(rows, token_id, t, dbFail)

\* keep_alive after the probe came back: the store call it makes, as a Result; a probe
\* exception is re-raised before any store call
keep_alive(rows, token_id, account_type, resp, t, dbFail) ==
    IF resp.kind = "exception" THEN Result("ProbeError", NoId, rows)
    ELSE IF is_valid(account_type, resp) THEN update_last_active(rows, token_id, t, dbFail)
    ELSE update_status(rows, token_id, EXPIRED, dbFail)

\* a cycle that counts by the probe alone
BucketIgnoringErrors(account_type, resp, res) ==
    IF is_valid(account_type, resp) THEN "success" ELSE "expired"

\* the bucket of cycle_stats the token is counted in
Bucket(account_type, resp, res) ==
    IF res.outcome # "ok" THEN "failed"
    ELSE IF is_valid(account_type, resp) THEN "success"
    ELSE "expired"

Attempt(user_id, extension_id, result) == [user_id |-> user_id, extension_id |-> extension_id, result |-> result]

\* lines 253-268 and notify_token_expired up to send_json: the probe of token k.i is back
ProbeReturn(resp, dbFail) ==
    /\ keeper.pc = "probing"
    /\ LET held == keeper.active_tokens[keeper.i]
           token == Current(tokens, held)
           account_type == token.account_type
           res == keep_alive(tokens, held.id, account_type, resp, now, dbFail)
           bucket == Bucket(account_type, resp, res)
           k == [Count(keeper, bucket) EXCEPT
                    !.last = [i |-> keeper.i, id |-> held.id, account_type |-> account_type,
                              resp |-> resp, fault |-> dbFail]]
           conn == get_connection_by_user(connections, token.user_id)
       IN  /\ tokens' = res.rows
           /\ IF bucket # "expired"
              THEN /\ keeper' = NextToken(k, res.rows)
                   /\ UNCHANGED notifyLog
              ELSE IF conn = <<>>
              THEN /\ keeper' = NextToken(k, res.rows)
                   /\ notifyLog' = Append(notifyLog, Attempt(token.user_id, None, "no_connection"))
              ELSE /\ keeper' = [k EXCEPT !.pc = "sending",
                                          !.send = <<[user_id |-> token.user_id,
                                                      extension_id |-> conn[1].extension_id,
                                                      websocket |-> conn[1].websocket]>>]
                   /\ UNCHANGED notifyLog
    /\ UNCHANGED <<lastCall, connections, chans, now, sweep, deletePush, apiVars>>

\* send_to_extension lines 173-181 for the notification: send_json returns or raises, and a
\* failed send disconnects the extension id
NotifySent ==
    /\ keeper.pc = "sending"
    /\ CanSend(chans, keeper.send[1].websocket) \/ lock = "free"
    /\ LET snd == keeper.send[1]
       IN  IF CanSend(chans, snd.websocket)
           THEN /\ chans' = Send(chans, snd.websocket, Envelope(TOKEN_EXPIRED, snd.user_id))
                /\ notifyLog' = Append(notifyLog, Attempt(snd.user_id, snd.extension_id, "sent"))
                /\ UNCHANGED connections
           ELSE /\ chans' = disconnect_chans(connections, chans, snd.extension_id)
                /\ connections' = disconnect_conns(connections, snd.extension_id)
                /\ notifyLog' = Append(notifyLog, Attempt(snd.user_id, snd.extension_id, "failed"))
    /\ keeper' = NextToken(keeper, tokens)
    /\ UNCHANGED <<tokens, lastCall, now, sweep, deletePush, apiVars>>

----------------------------------------------------------------------------
(* token_keeper.py: notify_all_expired_tokens.  It suspends only in the     *)
(* send_json of a notification (pc "notifying"); keeper holds its frame.    *)

\* the calls of notify_all_expired_tokens in a run
MaxNotifyAll == 1

\* no call of notify_all_expired_tokens made yet
NotifyIdle == [pc |-> "idle", expired_tokens |-> <<>>, i |-> 1, success_count |-> 0, send |-> <<>>,
               result |-> 0, fault |-> FALSE, calls |-> 0]

\* a selection that takes every row, whatever its status
all_tokens_as_expired(rows) == InIdOrder(rows)

\* lines 514-517: get_all(include_expired=True), and of it the rows whose status is EXPIRED
expired_tokens_of(rows) == InIdOrder({r \in rows : r.status = EXPIRED})

\* the for loop of lines 525-527 from token f.i on, up to the next send_json: a token whose
\* user has no connection is an attempt that returns False at once; after the last token
\* the call returns success_count
RECURSIVE NotifyLoop(_, _, _, _)
NotifyLoop(f, log, rows, conns) ==
    IF f.i > Len(f.expired_tokens)
    THEN [frame |-> [f EXCEPT !.pc = "returned", !.result = f.success_count, !.send = <<>>], log |-> log]
    ELSE LET token == Current(rows, f.expired_tokens[f.i])
             conn == get_connection_by_user(conns, token.user_id)
         IN  IF conn = <<>>
             THEN NotifyLoop([f EXCEPT !.i = @ + 1],
                             Append(log, Attempt(token.user_id, None, "no_connection")), rows, conns)
             ELSE [frame |-> [f EXCEPT !.pc = "notifying",
                                       !.send = <<[user_id |-> token.user_id,
                                                   extension_id |-> conn[1].extension_id,
                                                   websocket |-> conn[1].websocket]>>],
                   log |-> log]

\* notify_all_expired_tokens is called: lines 511-527 up to the first send_json; a failing
\* get_all is caught at line 532 and the call returns 0
NotifyAllExpired(dbFail) ==
    /\ keeper.pc \in {"idle", "returned"}
    /\ keeper.calls < MaxNotifyAll
    /\ LET expired_tokens == expired_tokens_of(tokens)
           f == [NotifyIdle EXCEPT !.expired_tokens = [j \in DOMAIN expired_tokens |-> Held(expired_tokens[j])],
                                   !.fault = dbFail,
                                   !.calls = keeper.calls + 1]
           go == NotifyLoop(f, <<>>, tokens, connections)
       IN  IF dbFail
           THEN /\ keeper' = [f EXCEPT !.pc = "returned", !.expired_tokens = <<>>]
                /\ notifyLog' = <<>>
           ELSE /\ keeper' = go.frame
                /\ notifyLog' = go.log
    /\ UNCHANGED <<tokens, lastCall, connections, chans, now, sweep, deletePush, apiVars>>

\* send_to_extension lines 173-181 for the notification of token keeper.i: send_json returns
\* or raises, a failed send disconnects the extension id; then the loop goes on
NotifyAllSent ==
    /\ keeper.pc = "notifying"
    /\ CanSend(chans, keeper.send[1].websocket) \/ lock = "free"
    /\ LET snd == keeper.send[1]
           ok == CanSend(chans, snd.websocket)
           conns == IF ok THEN connections ELSE disconnect_conns(connections, snd.extension_id)
           f == [keeper EXCEPT !.i = @ + 1, !.success_count = IF ok THEN @ + 1 ELSE @]
           log == Append(notifyLog, Attempt(snd.user_id, snd.extension_id, IF ok THEN "sent" ELSE "failed"))
           go == NotifyLoop(f, log, tokens, conns)
       IN  /\ chans' = IF ok THEN Send(chans, snd.websocket, Envelope(TOKEN_EXPIRED, snd.user_id))
                       ELSE disconnect_chans(connections, chans, snd.extension_id)
           /\ connections' = conns
           /\ keeper' = go.frame
           /\ notifyLog' = go.log
    /\ UNCHANGED <<tokens, lastCall, now, sweep, deletePush, apiVars>>

----------------------------------------------------------------------------
(* server.py: websocket_endpoint, one invocation per channel.              *)
(* pc: "idle" no connection yet, "accepted" waiting for the first message, *)
(* "loop" registered and waiting for a message, "managed" registered by    *)
(* WebSocketManager.connect, "done" the endpoint has returned.             *)

Ack(ok) == IF ok THEN <<"success">> ELSE <<"failure">>

\* the account type the stored row carries for an upload's accountType
StoredAccountType(account_type) == IF account_type \in AccountType THEN account_type ELSE AGENT

\* the endpoint returns: its finally clause disconnects the extension id it registered, and
\* the server closes the transport of a returned endpoint
Return(chs, c) == [chs EXCEPT ![c].pc = "done", ![c].open = FALSE]

\* the client opens a channel: websocket.accept() at line 399
Open(c) ==
    /\ chans[c].pc = "idle"
    /\ chans' = [chans EXCEPT ![c].pc = "accepted", ![c].open = TRUE]
    /\ UNCHANGED <<tokens, lastCall, connections, now, keeper, notifyLog, sweep, deletePush, apiVars>>

\* what the endpoint makes of a raw message: it does not parse, it is no valid envelope,
\* or its type
Kind(raw) ==
    IF validate_message_type_error(raw) THEN "scalar"
    ELSE IF parse_fails(raw) THEN "unparsable"
    ELSE IF validate_message_fails(raw.obj) THEN "invalid"
    ELSE raw.obj.type

\* an endpoint that closes an unregistered channel without a word
RejectUnregisteredSilently(chs, c) == Return(Close(chs, c), c)

\* lines 406-413: the first message is a valid envelope of another type than REGISTER
RejectUnregistered(chs, c) == Return(Close(Send(chs, c, Envelope(ERROR, <<>>)), c), c)

\* lines 402-435: the first message.  An exception that is neither a parse nor a
\* validation error is only logged (lines 461-462) and the endpoint returns
FirstMessage(c, raw) ==
    /\ chans[c].pc = "accepted"
    /\ chans[c].open
    /\ LET got == [chans EXCEPT ![c].first = Kind(raw)]
       IN  IF validate_message_type_error(raw)
           THEN /\ chans' = Return(got, c)
                /\ UNCHANGED connections
           ELSE
           IF parse_fails(raw) \/ validate_message_fails(raw.obj)
           THEN /\ chans' = Return(Send(got, c, Envelope(ERROR, <<>>)), c)
                /\ UNCHANGED connections
           ELSE IF raw.obj.type # REGISTER
           THEN /\ chans' = RejectUnregistered(got, c)
                /\ UNCHANGED connections
           ELSE IF validate_register_payload_fails(raw.obj.payload)
           THEN /\ chans' = Return(Send(got, c, Envelope(ERROR, <<>>)), c)
                /\ UNCHANGED connections
           ELSE LET extension_id == raw.obj.payload.extensionId
                IN  /\ connections' = endpoint_register_conns(connections, c, extension_id, now)
                    /\ chans' = [Send(endpoint_register_chans(connections, got, extension_id), c,
                                      Envelope(REGISTER_ACK, Ack(TRUE)))
                                    EXCEPT ![c].pc = "loop", ![c].extension_id = extension_id]
    /\ UNCHANGED <<tokens, lastCall, now, keeper, notifyLog, sweep, deletePush, apiVars>>

\* handle_websocket_message: one message of the loop.  An exception it does not catch
\* ends the endpoint: lines 461-467 log it and disconnect the extension id
LoopMessage(c, raw, dbFail) ==
    /\ chans[c].pc = "loop"
    /\ chans[c].open
    /\ chans[c].reads < MaxMsgs
    /\ LET extension_id == chans[c].extension_id
           read == [chans EXCEPT ![c].reads = @ + 1]
       IN  IF validate_message_type_error(raw)
           THEN /\ lock = "free"
                /\ connections' = disconnect_conns(connections, extension_id)
                /\ chans' = Return(disconnect_chans(connections, read, extension_id), c)
                /\ UNCHANGED tokens
           ELSE
           IF parse_fails(raw) \/ validate_message_fails(raw.obj)
           THEN /\ chans' = Send(read, c, Envelope(ERROR, <<>>))
                /\ UNCHANGED <<tokens, connections>>
           ELSE IF raw.obj.type = TOKEN_UPLOAD
           THEN IF validate_token_upload_payload_fails(raw.obj.payload)
                THEN /\ chans' = Send(read, c, Envelope(ERROR, <<>>))
                     /\ UNCHANGED <<tokens, connections>>
                ELSE LET payload == raw.obj.payload
                         res == create_or_update(tokens, payload.token, payload.userId, extension_id,
                                                 Get(payload, "account"),
                                                 StoredAccountType(Get(payload, "accountType")), dbFail)
                     IN  /\ \A r \in res.rows : r.id <= MaxId
                         /\ tokens' = res.rows
                         /\ connections' = IF res.outcome = "ok"
                                           THEN set_user_id(connections, extension_id, payload.userId)
                                           ELSE connections
                         /\ chans' = Send(read, c, Envelope(TOKEN_ACK, Ack(res.outcome = "ok")))
           ELSE IF raw.obj.type = HEARTBEAT
           THEN /\ connections' = update_heartbeat(connections, extension_id, now)
                /\ chans' = Send(read, c, Envelope(HEARTBEAT_ACK, <<>>))
                /\ UNCHANGED tokens
           ELSE /\ chans' = Send(read, c, Envelope(ERROR, <<>>))
                /\ UNCHANGED <<tokens, connections>>
    /\ UNCHANGED <<lastCall, now, keeper, notifyLog, sweep, deletePush, apiVars>>

\* the peer goes away: the transport is closed and the endpoint has not yet noticed
ClientClose(c) ==
    /\ chans[c].pc \in {"accepted", "loop", "managed"}
    /\ chans[c].open
    /\ chans' = Close(chans, c)
    /\ UNCHANGED <<tokens, lastCall, connections, now, keeper, notifyLog, sweep, deletePush, apiVars>>

\* lines 448-467: receive_text raises WebSocketDisconnect on a closed transport, and the
\* finally clause disconnects the extension id this endpoint registered
HandlerDisconnect(c) ==
    /\ chans[c].pc \in {"accepted", "loop"}
    /\ ~chans[c].open
    /\ Truthy(chans[c].extension_id) => lock = "free"
    /\ LET extension_id == chans[c].extension_id
       IN  IF Truthy(extension_id)
           THEN /\ connections' = disconnect_conns(connections, extension_id)
                /\ chans' = Return(disconnect_chans(connections, chans, extension_id), c)
           ELSE /\ chans' = Return(chans, c)
                /\ UNCHANGED connections
    /\ UNCHANGED <<tokens, lastCall, now, keeper, notifyLog, sweep, deletePush, apiVars>>

\* WebSocketManager.connect(websocket, extension_id) on a new channel
ManagerConnect(c, extension_id) ==
    /\ chans[c].pc = "idle"
    /\ lock = "free"
    /\ connections' = connect_conns(connections, c, extension_id, now)
    /\ chans' = [connect_chans(connections, chans, extension_id)
                    EXCEPT ![c].pc = "managed", ![c].open = TRUE, ![c].extension_id = extension_id]
    /\ UNCHANGED <<tokens, lastCall, now, keeper, notifyLog, sweep, deletePush, apiVars>>

----------------------------------------------------------------------------
(* websocket_manager.py: _check_heartbeats.  The scan and the first        *)
(* disconnect run without suspension; disconnect suspends in               *)
(* websocket.close(), so every later disconnect is a step of its own.      *)

Evict(extension_id) ==
    /\ connections' = disconnect_conns(connections, extension_id)
    /\ chans' = disconnect_chans(connections, chans, extension_id)

SweepScan ==
    /\ sweep.pc = "idle"
    /\ lock = "free"
    /\ LET expired_extensions == ExpiredExtensions(connections, now)
       IN  IF expired_extensions = <<>>
           THEN /\ sweep' = SweepIdle
                /\ UNCHANGED <<connections, chans>>
           ELSE /\ Evict(Head(expired_extensions))
                /\ sweep' = [pc |-> IF Tail(expired_extensions) = <<>> THEN "idle" ELSE "evicting",
                             expired_extensions |-> Tail(expired_extensions),
                             evicted |-> <<Head(expired_extensions)>>]
    /\ UNCHANGED <<tokens, lastCall, now, keeper, notifyLog, deletePush, apiVars>>

SweepNext ==
    /\ sweep.pc = "evicting"
    /\ lock = "free"
    /\ Evict(Head(sweep.expired_extensions))
    /\ sweep' = [pc |-> IF Tail(sweep.expired_extensions) = <<>> THEN "idle" ELSE "evicting",
                 expired_extensions |-> Tail(sweep.expired_extensions),
                 evicted |-> Append(sweep.evicted, Head(sweep.expired_extensions))]
    /\ UNCHANGED <<tokens, lastCall, now, keeper, notifyLog, deletePush, apiVars>>

Tick ==
    /\ now < MaxTime
    /\ now' = now + 1
    /\ UNCHANGED <<tokens, lastCall, connections, chans, keeper, notifyLog, sweep, deletePush, apiVars>>

----------------------------------------------------------------------------
(* server.py: delete_token, and the send_to_extension call it makes *)

DeleteToken(token_id, dbFail) ==
    /\ deletePush.result # "pending"
    /\ get_by_id(tokens, token_id) # {}
    /\ LET token == RowOf(tokens, token_id)
           res == delete(tokens, token_id, dbFail)
           extension_id == token.extension_id
       IN  /\ tokens' = res.rows
           /\ keeper' = Detach(keeper, tokens, Ids(tokens) \ Ids(res.rows))
           /\ deletePush' =
                IF res.outcome # "ok" \/ ~Truthy(extension_id) THEN NoSend
                ELSE IF ~Has(connections, extension_id)
                THEN [extension_id |-> extension_id, websocket |-> "none",
                      user_id |-> token.user_id, result |-> "not_found"]
                ELSE [extension_id |-> extension_id,
                      websocket |-> Lookup(connections, extension_id).websocket,
                      user_id |-> token.user_id, result |-> "pending"]
    /\ UNCHANGED <<lastCall, connections, chans, now, notifyLog, sweep, apiVars>>

\* send_to_extension lines 173-181 for the deletion notice
DeletePushSent ==
    /\ deletePush.result = "pending"
    /\ CanSend(chans, deletePush.websocket) \/ lock = "free"
    /\ IF CanSend(chans, deletePush.websocket)
       THEN /\ chans' = Send(chans, deletePush.websocket, Envelope(TOKEN_DELETED, deletePush.user_id))
            /\ deletePush' = [deletePush EXCEPT !.result = "sent"]
            /\ UNCHANGED connections
       ELSE /\ Evict(deletePush.extension_id)
            /\ deletePush' = [deletePush EXCEPT !.result = "failed"]
    /\ UNCHANGED <<tokens, lastCall, now, keeper, notifyLog, sweep, apiVars>>

----------------------------------------------------------------------------
(* websocket_manager.py: disconnect and send_to_extension called directly.  *)
(* disconnect holds the lock from the lookup until websocket.close() has    *)
(* returned, and close() is a suspension; send_to_extension holds it for    *)
(* the lookup only, and suspends in send_json.                              *)

MgrBusy == mgr.result \in {"pending", "closing"}

MgrCall(op, extension_id, websocket, popped, result) ==
    [calls |-> mgr.calls + 1, op |-> op, extension_id |-> extension_id, websocket |-> websocket,
     popped |-> popped, result |-> result]

\* disconnect lines 138-143: absent returns False at once, present is popped
DisconnectCall(extension_id) ==
    /\ lock = "free"
    /\ ~MgrBusy
    /\ mgr.calls < MaxCalls
    /\ connections' = disconnect_conns(connections, extension_id)
    /\ IF ~Has(connections, extension_id)
       THEN /\ mgr' = MgrCall("disconnect", extension_id, "none", "none", "absent")
            /\ UNCHANGED lock
       ELSE /\ mgr' = MgrCall("disconnect", extension_id, "none",
                              Lookup(connections, extension_id).websocket, "closing")
            /\ lock' = "disconnect"
    /\ UNCHANGED <<tokens, lastCall, chans, now, keeper, notifyLog, sweep, deletePush, bcast, sched>>

\* disconnect lines 145-151: close() has returned, the lock is released, True is returned;
\* a send_to_extension that called it returns False
DisconnectReturn ==
    /\ mgr.result = "closing"
    /\ chans' = Close(chans, mgr.popped)
    /\ lock' = "free"
    /\ mgr' = [mgr EXCEPT !.result = IF mgr.op = "send_to_extension" THEN "failed" ELSE "ok"]
    /\ UNCHANGED <<tokens, lastCall, connections, now, keeper, notifyLog, sweep, deletePush, bcast, sched>>

\* a send_to_extension that leaves the registry as it is when the send fails
send_failed_keeps(conns, extension_id) == conns

\* send_to_extension line 180: the failed send disconnects the extension id
send_failed_conns(conns, extension_id) == disconnect_conns(conns, extension_id)

\* send_to_extension lines 166-171: the lookup under the lock
SendToExtension(extension_id) ==
    /\ lock = "free"
    /\ ~MgrBusy
    /\ mgr.calls < MaxCalls
    /\ mgr' = IF ~Has(connections, extension_id)
              THEN MgrCall("send_to_extension", extension_id, "none", "none", "not_found")
              ELSE MgrCall("send_to_extension", extension_id,
                           Lookup(connections, extension_id).websocket, "none", "pending")
    /\ UNCHANGED <<tokens, lastCall, connections, chans, now, keeper, notifyLog, sweep, deletePush,
                   lock, bcast, sched>>

\* send_to_extension lines 173-181: send_json returns, or raises and the id is disconnected
SendReturn(message) ==
    /\ mgr.op = "send_to_extension"
    /\ mgr.result = "pending"
    /\ IF CanSend(chans, mgr.websocket)
       THEN /\ chans' = Send(chans, mgr.websocket, message)
            /\ mgr' = [mgr EXCEPT !.result = "sent"]
            /\ UNCHANGED <<connections, lock>>
       ELSE /\ lock = "free"
            /\ connections' = send_failed_conns(connections, mgr.extension_id)
            /\ UNCHANGED chans
            /\ IF Has(connections, mgr.extension_id)
               THEN /\ mgr' = [mgr EXCEPT !.result = "closing",
                                          !.popped = Lookup(connections, mgr.extension_id).websocket]
                    /\ lock' = "send_to_extension"
               ELSE /\ mgr' = [mgr EXCEPT !.result = "failed"]
                    /\ UNCHANGED lock
    /\ UNCHANGED <<tokens, lastCall, now, keeper, notifyLog, sweep, deletePush, bcast, sched>>

----------------------------------------------------------------------------
(* websocket_manager.py: broadcast.  The targets are collected under the    *)
(* lock; each send_json is a suspension; the failed ids are disconnected    *)
(* one by one afterwards.                                                   *)

RECURSIVE TargetsOf(_)
TargetsOf(conns) ==
    IF conns = <<>> THEN <<>>
    ELSE <<[extension_id |-> Head(conns).extension_id, websocket |-> Head(conns).websocket]>>
            \o TargetsOf(Tail(conns))

\* a broadcast that takes every connection as a target
broadcast_targets_all(conns, exclude) == TargetsOf(conns)

\* lines 202-206: the connections whose id is not in exclude, in dict order
broadcast_targets(conns, exclude) ==
    TargetsOf(SelectSeq(conns, LAMBDA ci : ci.extension_id \notin exclude))

\* lines 196-206, and the return at once when there is no target
BroadcastCall(exclude) ==
    /\ bcast.pc = "idle"
    /\ lock = "free"
    /\ LET targets == broadcast_targets(connections, exclude)
       IN  bcast' = [BcastIdle EXCEPT !.pc = IF targets = <<>> THEN "done" ELSE "sending",
                                      !.exclude = exclude, !.targets = targets]
    /\ UNCHANGED <<tokens, lastCall, connections, chans, now, keeper, notifyLog, sweep, deletePush,
                   lock, mgr, sched>>

\* lines 209-215: send_json to the next target returns or raises; after the last target the
\* call returns unless an id is to be disconnected
BroadcastSend(message) ==
    /\ bcast.pc = "sending"
    /\ LET target == bcast.targets[bcast.i]
           ok == CanSend(chans, target.websocket)
           failed_extensions == IF ok THEN bcast.failed_extensions
                                ELSE Append(bcast.failed_extensions, target.extension_id)
           success_count == IF ok THEN bcast.success_count + 1 ELSE bcast.success_count
           last == bcast.i = Len(bcast.targets)
       IN  /\ chans' = IF ok THEN Send(chans, target.websocket, message) ELSE chans
           /\ bcast' = [bcast EXCEPT
                            !.i = @ + 1,
                            !.success_count = success_count,
                            !.failed_extensions = failed_extensions,
                            !.attempts = Append(@, [extension_id |-> target.extension_id,
                                                    websocket |-> target.websocket,
                                                    result |-> IF ok THEN "sent" ELSE "failed"]),
                            !.pc = IF ~last THEN "sending"
                                   ELSE IF failed_extensions = <<>> THEN "done" ELSE "evicting",
                            !.result = IF last /\ failed_extensions = <<>> THEN success_count ELSE 0]
    /\ UNCHANGED <<tokens, lastCall, connections, now, keeper, notifyLog, sweep, deletePush,
                   lock, mgr, sched>>

\* lines 218-222: disconnect of the next failed id; after the last, success_count is returned
BroadcastEvict ==
    /\ bcast.pc = "evicting"
    /\ lock = "free"
    /\ LET k == Len(bcast.evicted) + 1
           last == k = Len(bcast.failed_extensions)
       IN  /\ Evict(bcast.failed_extensions[k])
           /\ bcast' = [bcast EXCEPT !.evicted = Append(@, bcast.failed_extensions[k]),
                                      !.pc = IF last THEN "done" ELSE "evicting",
                                      !.result = IF last THEN bcast.success_count ELSE 0]
    /\ UNCHANGED <<tokens, lastCall, now, keeper, notifyLog, sweep, deletePush, lock, mgr, sched>>

----------------------------------------------------------------------------
(* token_keeper.py: start, stop and _keep_alive_loop.  sched.tasks are the  *)
(* loop tasks created so far, sched.task is the index of the one            *)
(* self._task refers to (0 for None).  A task is "created" until it first   *)
(* runs, "sleeping" in asyncio.sleep, in "cycle" while suspended inside     *)
(* run_keep_alive_cycle, and "ended" once the coroutine has returned.       *)
(* What a cycle does is CycleStart, ProbeReturn and NotifySent above; here  *)
(* a cycle is its extent in time.  start() and stop() are called one after  *)
(* the other, as main.py does.                                              *)

\* the cycles one loop task begins
MaxLoopCycles == MaxCycles + 1

\* raised: a cycle of the task has raised an error
NewTask == [pc |-> "created", cancel |-> FALSE, cycles |-> 0, raised |-> FALSE]

Live(task) == task.pc # "ended"

\* a start() that never takes the service for running
start_never_ignored(running) == FALSE

\* start line 148: if self._running: return
start_ignored(running) == running

\* lines 148-154
Start ==
    /\ sched.stop = "idle"
    /\ sched.calls < MaxStartStop
    /\ IF start_ignored(sched.running)
       THEN sched' = [sched EXCEPT !.last = "start_ignored", !.calls = @ + 1]
       ELSE /\ Len(sched.tasks) < MaxTasks
            /\ sched' = [sched EXCEPT !.running = TRUE,
                                      !.tasks = Append(@, NewTask),
                                      !.task = Len(sched.tasks) + 1,
                                      !.last = "started",
                                      !.calls = @ + 1]
    /\ UNCHANGED <<tokens, lastCall, connections, chans, now, keeper, notifyLog, sweep, deletePush,
                   lock, mgr, bcast>>

\* lines 162-172: not running returns at once; else _running is cleared, the task is
\* cancelled and stop() waits for it
Stop ==
    /\ sched.stop = "idle"
    /\ sched.calls < MaxStartStop
    /\ IF ~sched.running
       THEN sched' = [sched EXCEPT !.last = "stop_ignored", !.calls = @ + 1]
       ELSE IF sched.task = 0
       THEN sched' = [sched EXCEPT !.running = FALSE, !.last = "stopped", !.calls = @ + 1]
       ELSE sched' = [sched EXCEPT !.running = FALSE,
                                   !.tasks[sched.task].cancel = Live(sched.tasks[sched.task]),
                                   !.stop = "awaiting",
                                   !.last = "stopping",
                                   !.calls = @ + 1]
    /\ UNCHANGED <<tokens, lastCall, connections, chans, now, keeper, notifyLog, sweep, deletePush,
                   lock, mgr, bcast>>

\* a stop() that does not wait for the task
stop_returns_at_once(tasks, task) == TRUE

\* line 172: await self._task returns once the task is done
stop_may_return(tasks, task) == ~Live(tasks[task])

\* lines 173-182: the awaited task is done; the handle is dropped and stop() returns
StopReturn ==
    /\ sched.stop = "awaiting"
    /\ stop_may_return(sched.tasks, sched.task)
    /\ sched' = [sched EXCEPT !.task = 0, !.stop = "idle", !.last = "stopped"]
    /\ UNCHANGED <<tokens, lastCall, connections, chans, now, keeper, notifyLog, sweep, deletePush,
                   lock, mgr, bcast>>

\* the CancelledError is raised in the task where it is suspended: a task that never ran
\* does not start, and lines 205-207 end the loop
CancelDelivered(i) ==
    /\ i \in 1..Len(sched.tasks)
    /\ sched.tasks[i].cancel
    /\ sched' = [sched EXCEPT !.tasks[i].cancel = FALSE, !.tasks[i].pc = "ended"]
    /\ UNCHANGED <<tokens, lastCall, connections, chans, now, keeper, notifyLog, sweep, deletePush,
                   lock, mgr, bcast>>

\* lines 192-197: the task runs for the first time, up to its first sleep
TaskBegin(i) ==
    /\ i \in 1..Len(sched.tasks)
    /\ sched.tasks[i].pc = "created"
    /\ ~sched.tasks[i].cancel
    /\ sched' = [sched EXCEPT !.tasks[i].pc = IF sched.running THEN "sleeping" ELSE "ended"]
    /\ UNCHANGED <<tokens, lastCall, connections, chans, now, keeper, notifyLog, sweep, deletePush,
                   lock, mgr, bcast>>

\* lines 197-203: the sleep is over; not running breaks, else a cycle begins.  A cycle
\* that finds no ACTIVE credential returns without suspending (suspends = FALSE) and the
\* task is back in its sleep
TaskWake(i, suspends) ==
    /\ i \in 1..Len(sched.tasks)
    /\ sched.tasks[i].pc = "sleeping"
    /\ ~sched.tasks[i].cancel
    /\ IF ~sched.running
       THEN sched' = [sched EXCEPT !.tasks[i].pc = "ended"]
       ELSE /\ sched.tasks[i].cycles < MaxLoopCycles
            /\ sched' = [sched EXCEPT !.tasks[i].cycles = @ + 1,
                                      !.tasks[i].pc = IF suspends THEN "cycle" ELSE "sleeping"]
    /\ UNCHANGED <<tokens, lastCall, connections, chans, now, keeper, notifyLog, sweep, deletePush,
                   lock, mgr, bcast>>

\* lines 203-210 and 194: the cycle returned or raised; the loop ends if not running, else sleeps
CycleReturn(i) ==
    /\ i \in 1..Len(sched.tasks)
    /\ sched.tasks[i].pc = "cycle"
    /\ ~sched.tasks[i].cancel
    /\ sched' = [sched EXCEPT !.tasks[i].pc = IF sched.running THEN "sleeping" ELSE "ended"]
    /\ UNCHANGED <<tokens, lastCall, connections, chans, now, keeper, notifyLog, sweep, deletePush,
                   lock, mgr, bcast>>

\* a loop that an error of its cycle ends
loop_ends_on_error(running) == "ended"

\* lines 208-210 and 194: the error is logged and the while condition is tested again
loop_after_error(running) == IF running THEN "sleeping" ELSE "ended"

\* lines 203 and 208-210: run_keep_alive_cycle raised an Exception
CycleRaise(i) ==
    /\ i \in 1..Len(sched.tasks)
    /\ sched.tasks[i].pc = "cycle"
    /\ ~sched.tasks[i].cancel
    /\ sched' = [sched EXCEPT !.tasks[i].pc = loop_after_error(sched.running), !.tasks[i].raised = TRUE]
    /\ UNCHANGED <<tokens, lastCall, connections, chans, now, keeper, notifyLog, sweep, deletePush,
                   lock, mgr, bcast>>

----------------------------------------------------------------------------
(* websocket_manager.py: start_heartbeat_checker, stop_heartbeat_checker   *)
(* and _heartbeat_loop.  sweep holds the checker: _running, the loop task   *)
(* (pc "none" before it is created, then as the keep-alive task, with       *)
(* "sweeping" for the extent of _check_heartbeats), the sweeps begun, and   *)
(* whether stop is waiting for the task.                                    *)

CheckerIdle == [running |-> FALSE, pc |-> "none", cancel |-> FALSE, sweeps |-> 0, raised |-> FALSE,
                stop |-> "idle", calls |-> 0]

\* lines 326-332
StartHeartbeatChecker ==
    /\ sweep.stop = "idle"
    /\ sweep.calls < MaxStartStop
    /\ sweep' = IF sweep.running THEN [sweep EXCEPT !.calls = @ + 1]
                ELSE [sweep EXCEPT !.running = TRUE, !.pc = "created", !.cancel = FALSE, !.sweeps = 0,
                                   !.raised = FALSE, !.calls = @ + 1]
    /\ UNCHANGED <<tokens, lastCall, connections, chans, now, keeper, notifyLog, deletePush, apiVars>>

\* lines 338-344: _running is cleared; a task, if there is one, is cancelled and awaited
StopHeartbeatChecker ==
    /\ sweep.stop = "idle"
    /\ sweep.calls < MaxStartStop
    /\ sweep' = IF sweep.pc = "none" THEN [sweep EXCEPT !.running = FALSE, !.calls = @ + 1]
                ELSE [sweep EXCEPT !.running = FALSE, !.cancel = (sweep.pc # "ended"),
                                   !.stop = "awaiting", !.calls = @ + 1]
    /\ UNCHANGED <<tokens, lastCall, connections, chans, now, keeper, notifyLog, deletePush, apiVars>>

\* lines 344-347: the awaited task is done; the handle is dropped
StopHeartbeatReturn ==
    /\ sweep.stop = "awaiting"
    /\ sweep.pc = "ended"
    /\ sweep' = [sweep EXCEPT !.stop = "idle", !.pc = "none"]
    /\ UNCHANGED <<tokens, lastCall, connections, chans, now, keeper, notifyLog, deletePush, apiVars>>

\* the CancelledError is raised in the task where it is suspended; lines 369-370 end the loop
HeartbeatCancelDelivered ==
    /\ sweep.cancel
    /\ sweep' = [sweep EXCEPT !.cancel = FALSE, !.pc = "ended"]
    /\ UNCHANGED <<tokens, lastCall, connections, chans, now, keeper, notifyLog, deletePush, apiVars>>

\* lines 360-362: the task runs for the first time, up to its first sleep
HeartbeatBegin ==
    /\ sweep.pc = "created"
    /\ ~sweep.cancel
    /\ sweep' = [sweep EXCEPT !.pc = IF sweep.running THEN "sleeping" ELSE "ended"]
    /\ UNCHANGED <<tokens, lastCall, connections, chans, now, keeper, notifyLog, deletePush, apiVars>>

\* lines 362-367: the sleep is over; not running breaks, else _check_heartbeats begins
HeartbeatWake ==
    /\ sweep.pc = "sleeping"
    /\ ~sweep.cancel
    /\ IF ~sweep.running
       THEN sweep' = [sweep EXCEPT !.pc = "ended"]
       ELSE /\ sweep.sweeps < MaxLoopCycles
            /\ sweep' = [sweep EXCEPT !.sweeps = @ + 1, !.pc = "sweeping"]
    /\ UNCHANGED <<tokens, lastCall, connections, chans, now, keeper, notifyLog, deletePush, apiVars>>

\* a loop that an error of its sweep ends
heartbeat_loop_ends_on_error(running) == "ended"

\* lines 371-372 and 360: the error is logged and the while condition is tested again
heartbeat_loop_after_error(running) == IF running THEN "sleeping" ELSE "ended"

\* lines 367-372 and 360: _check_heartbeats returned, or raised an Exception
SweepEnd(raises) ==
    /\ sweep.pc = "sweeping"
    /\ ~sweep.cancel
    /\ sweep' = IF raises
                THEN [sweep EXCEPT !.pc = heartbeat_loop_after_error(sweep.running), !.raised = TRUE]
                ELSE [sweep EXCEPT !.pc = IF sweep.running THEN "sleeping" ELSE "ended"]
    /\ UNCHANGED <<tokens, lastCall, connections, chans, now, keeper, notifyLog, deletePush, apiVars>>

----------------------------------------------------------------------------
(* The inputs the environment chooses from *)

Padded(s) == <<" ">> \o s \o <<" ">>
A1 == <<"A", "0", "0", "1">>

TokenInputs   == {S1, S2, TooShort}
UserIdInputs  == {U1, U2, Padded(U1)}
AccountInputs == {None, A1}

Message(type, payload) == [type |-> type, timestamp |-> 0, payload |-> payload]
NoPayload == [other |-> <<>>]

Register(extension_id) == Json(Message(REGISTER, [extensionId |-> extension_id]))
Heartbeat == Json(Message(HEARTBEAT, NoPayload))
Upload(token, user_id) == Json(Message(TOKEN_UPLOAD, [token |-> token, userId |-> user_id]))
UploadAs(token, user_id, account, account_type) ==
    Json(Message(TOKEN_UPLOAD, [token |-> token, userId |-> user_id, account |-> account,
                                accountType |-> account_type]))

FirstMessages ==
    {Garbage, Json([type |-> REGISTER, payload |-> NoPayload]), Heartbeat, Upload(S1, U1),
     Json(Message(REGISTER_ACK, NoPayload)), Json(Message(REGISTER, NoPayload)),
     Register(E1), Register(E2)}

LoopMessages ==
    {Garbage, Heartbeat, Register(E1), Json(Message(TOKEN_UPLOAD, NoPayload)),
     Upload(S1, U1), Upload(TooShort, U1), Upload(S2, U2), UploadAs(S2, U1, A1, NETWORK)}

----------------------------------------------------------------------------
(* Next-state relations *)

StoreCalls ==
    \/ \E token \in TokenInputs, user_id \in UserIdInputs, extension_id \in {None, E1},
          account \in AccountInputs, account_type \in AccountType, dbFail \in BOOLEAN :
            CreateOrUpdate(token, user_id, extension_id, account, account_type, dbFail)
    \/ \E token_id \in 1..MaxId, dbFail \in BOOLEAN : Delete(token_id, dbFail)
    \/ \E token_id \in 1..MaxId, status \in TokenStatus, dbFail \in BOOLEAN :
            UpdateStatus(token_id, status, dbFail)
    \/ \E token_id \in 1..MaxId, dbFail \in BOOLEAN : UpdateLastActive(token_id, dbFail)

KeeperSteps ==
    \/ CycleStart
    \/ \E resp \in Responses, dbFail \in BOOLEAN : ProbeReturn(resp, dbFail)
    \/ NotifySent

ChannelSteps ==
    \E c \in Channels :
        \/ Open(c)
        \/ \E raw \in FirstMessages : FirstMessage(c, raw)
        \/ \E raw \in LoopMessages, dbFail \in BOOLEAN : LoopMessage(c, raw, dbFail)
        \/ ClientClose(c)
        \/ HandlerDisconnect(c)
        \/ \E extension_id \in ExtIds : ManagerConnect(c, extension_id)

SweepSteps == SweepScan \/ SweepNext

GatewaySteps ==
    \/ \E token_id \in 1..MaxId, dbFail \in BOOLEAN : DeleteToken(token_id, dbFail)
    \/ DeletePushSent

Next == StoreCalls \/ KeeperSteps \/ ChannelSteps \/ SweepSteps \/ GatewaySteps \/ Tick

Spec == Init /\ [][Next]_vars

\* the credential store under direct calls of TokenService
NextStore ==
    \/ \E token \in TokenInputs, user_id \in UserIdInputs, account \in AccountInputs :
            CreateOrUpdate(token, user_id, None, account, AGENT, FALSE)
    \/ \E token_id \in 1..MaxId : Delete(token_id, FALSE)
    \/ \E token_id \in 1..MaxId, status \in TokenStatus : UpdateStatus(token_id, status, FALSE)
    \/ \E token_id \in 1..MaxId : UpdateLastActive(token_id, FALSE)

SpecStore == Init /\ [][NextStore]_vars

\* the keep-alive cycle over a store that uploads and deletions change meanwhile, no agent connected
NextKeeper ==
    \/ \E token \in Secrets, dbFail \in BOOLEAN :
            \/ CreateOrUpdate(token, U1, None, None, AGENT, dbFail)
            \/ CreateOrUpdate(token, U1, None, A1, NETWORK, dbFail)
    \/ \E token_id \in 1..MaxId : Delete(token_id, FALSE)
    \/ CycleStart
    \/ \E resp \in Responses, dbFail \in BOOLEAN : ProbeReturn(resp, dbFail)

SpecKeeper == InitOnOldTable /\ [][NextKeeper]_vars

\* the keep-alive cycle while agents register, upload and go away
NextNotify ==
    \/ \E c \in Channels :
        \/ Open(c)
        \/ FirstMessage(c, Register(E1))
        \/ \E raw \in {Upload(S1, U1), UploadAs(S2, U2, A1, NETWORK)} : LoopMessage(c, raw, FALSE)
        \/ ClientClose(c)
        \/ HandlerDisconnect(c)
    \/ CycleStart
    \/ \E resp \in {Http(401, "text"), Http(403, "text"), Http(200, "succ")}, dbFail \in BOOLEAN :
            ProbeReturn(resp, dbFail)
    \/ NotifySent

SpecNotify == Init /\ [][NextNotify]_vars

\* the channel endpoint and the registry under registrations, messages and disconnections
NextGate ==
    \E c \in Channels :
        \/ Open(c)
        \/ \E raw \in FirstMessages : FirstMessage(c, raw)
        \/ \E raw \in {Garbage, Heartbeat, Register(E1)} : LoopMessage(c, raw, FALSE)
        \/ ClientClose(c)
        \/ HandlerDisconnect(c)
        \/ \E extension_id \in ExtIds : ManagerConnect(c, extension_id)

SpecGate == Init /\ [][NextGate]_vars

\* the registry under the heartbeat sweep, while agents register, upload, send heartbeats
\* and go away, and the gateway deletes credentials
NextSweep ==
    \/ \E c \in Channels :
        \/ Open(c)
        \/ \E extension_id \in ExtIds : FirstMessage(c, Register(extension_id))
        \/ \E raw \in {Heartbeat, Upload(S1, U1)} : LoopMessage(c, raw, FALSE)
        \/ ClientClose(c)
        \/ HandlerDisconnect(c)
    \/ SweepScan
    \/ SweepNext
    \/ Tick
    \/ \E token_id \in 1..MaxId : DeleteToken(token_id, FALSE)
    \/ DeletePushSent

SpecSweep == Init /\ [][NextSweep]_vars

\* the notice a direct send_to_extension call carries
Notice == Envelope(TOKEN_DELETED, U1)

\* the registry under direct calls of disconnect and send_to_extension, while agents
\* register, send heartbeats and go away
NextRegistry ==
    \/ \E c \in Channels :
        \/ Open(c)
        \/ \E extension_id \in ExtIds : FirstMessage(c, Register(extension_id))
        \/ LoopMessage(c, Heartbeat, FALSE)
        \/ ClientClose(c)
        \/ HandlerDisconnect(c)
    \/ \E extension_id \in ExtIds : DisconnectCall(extension_id)
    \/ DisconnectReturn
    \/ \E extension_id \in ExtIds : SendToExtension(extension_id)
    \/ SendReturn(Notice)

SpecRegistry == Init /\ [][NextRegistry]_vars

\* the exclude lists a broadcast is called with
Excludes == {{}, {E1}}

\* a broadcast while agents register and go away
NextBroadcast ==
    \/ \E c \in Channels :
        \/ Open(c)
        \/ \E extension_id \in ExtIds : FirstMessage(c, Register(extension_id))
        \/ LoopMessage(c, Heartbeat, FALSE)
        \/ ClientClose(c)
        \/ HandlerDisconnect(c)
    \/ \E exclude \in Excludes : BroadcastCall(exclude)
    \/ BroadcastSend(Notice)
    \/ BroadcastEvict

SpecBroadcast == Init /\ [][NextBroadcast]_vars

\* the keep-alive scheduler under start() and stop() calls
NextSched ==
    \/ Start
    \/ Stop
    \/ StopReturn
    \/ \E i \in 1..MaxTasks :
        \/ CancelDelivered(i)
        \/ TaskBegin(i)
        \/ \E suspends \in BOOLEAN : TaskWake(i, suspends)
        \/ CycleReturn(i)

SpecSched == Init /\ [][NextSched]_vars

\* the gateway deletes credentials while agents register, upload and go away
NextDelete ==
    \/ \E c \in Channels :
        \/ Open(c)
        \/ \E extension_id \in ExtIds : FirstMessage(c, Register(extension_id))
        \/ \E raw \in {Upload(S1, U1), Upload(S2, U2)} : LoopMessage(c, raw, FALSE)
        \/ ClientClose(c)
        \/ HandlerDisconnect(c)
    \/ \E token_id \in 1..MaxId : DeleteToken(token_id, FALSE)
    \/ DeletePushSent

SpecDelete == Init /\ [][NextDelete]_vars

\* what a registered agent sends on its channel
ChannelMessages == {Heartbeat, Upload(S1, U1), Upload(S2, U2), Upload(TooShort, U1)}

\* channels through their life: registration, heartbeats, uploads that are stored or
\* refused, the client going away, while the clock advances
NextChannel ==
    \/ \E c \in Channels :
        \/ Open(c)
        \/ \E extension_id \in ExtIds : FirstMessage(c, Register(extension_id))
        \/ \E raw \in ChannelMessages, dbFail \in BOOLEAN : LoopMessage(c, raw, dbFail)
        \/ ClientClose(c)
        \/ HandlerDisconnect(c)
    \/ Tick

SpecChannel == Init /\ [][NextChannel]_vars

\* a TOKEN_UPLOAD whose payload names neither token nor subject
UploadOfNothing == Json(Message(TOKEN_UPLOAD, NoPayload))

\* the requests of an agent: heartbeats, an upload that is stored, one the store refuses
\* for its token, one whose payload is invalid
Requests == {Heartbeat, Upload(S1, U1), Upload(TooShort, U1), UploadOfNothing}

\* requests and their answers on the channels, while the gateway deletes credentials
\* and the deletion notices are pushed
NextAnswers ==
    \/ \E c \in Channels :
        \/ Open(c)
        \/ \E raw \in {Register(E1), Heartbeat} : FirstMessage(c, raw)
        \/ \E raw \in Requests, dbFail \in BOOLEAN : LoopMessage(c, raw, dbFail)
        \/ ClientClose(c)
        \/ HandlerDisconnect(c)
    \/ \E token_id \in 1..MaxId : DeleteToken(token_id, FALSE)
    \/ DeletePushSent

SpecAnswers == Init /\ [][NextAnswers]_vars

\* REGISTER messages whose payload fails validate_register_payload
BadRegisters == {Json(Message(REGISTER, NoPayload)), Register(<<>>)}

\* TOKEN_UPLOAD messages whose payload fails validate_token_upload_payload
BadUploads ==
    {UploadOfNothing,
     Upload(<<>>, U1),
     Json(Message(TOKEN_UPLOAD, [token |-> S1])),
     Json(Message(TOKEN_UPLOAD, [token |-> S1, userId |-> <<>>])),
     Json(Message(TOKEN_UPLOAD, [token |-> S1, userId |-> U1, source |-> "clipboard"]))}

\* a HEARTBEAT that names its agent
HeartbeatOf(extension_id) == Json(Message(HEARTBEAT, [extensionId |-> extension_id]))

\* messages that are no valid envelope, or whose type the server takes from no agent
BadEnvelopes ==
    {Garbage,
     Json([timestamp |-> 0, payload |-> NoPayload]),
     Json([type |-> HEARTBEAT, payload |-> NoPayload]),
     Json([type |-> HEARTBEAT, timestamp |-> 0]),
     Json(Message("bogus", NoPayload)),
     Json(Message(TOKEN_ACK, NoPayload)),
     Register(E2),
     JsonScalar}

\* channels that are sent valid, invalid and malformed messages, while the clock advances
NextProtocol ==
    \/ \E c \in Channels :
        \/ Open(c)
        \/ \E raw \in BadRegisters \cup {Register(E1)} : FirstMessage(c, raw)
        \/ \E raw \in BadUploads \cup BadEnvelopes \cup {Heartbeat, HeartbeatOf(E1), Upload(S1, U1)} :
                LoopMessage(c, raw, FALSE)
        \/ ClientClose(c)
        \/ HandlerDisconnect(c)
    \/ Tick

SpecProtocol == Init /\ [][NextProtocol]_vars

\* a string of n characters
Chars(n) == [i \in 1..n |-> "x"]

\* secrets at and around the limits of validate_token
SecretInputs ==
    {None, <<>>, <<" ", " ">>,
     Chars(MIN_TOKEN_LENGTH - 1), Padded(Chars(MIN_TOKEN_LENGTH - 1)), Chars(MIN_TOKEN_LENGTH),
     Chars(MAX_TOKEN_LENGTH), Padded(Chars(MAX_TOKEN_LENGTH)), Chars(MAX_TOKEN_LENGTH + 1),
     S1, Padded(S1), S1 \o <<"!">>, S1 \o <<" ">> \o S2}

\* subjects at and around the limit of validate_user_id
SubjectInputs ==
    {None, <<>>, <<" ">>, U1, Padded(U1),
     Chars(MAX_USER_ID_LENGTH), Padded(Chars(MAX_USER_ID_LENGTH)), Chars(MAX_USER_ID_LENGTH + 1)}

\* create_or_update called with valid and invalid secrets and subjects
NextValidation ==
    \E token \in SecretInputs, user_id \in SubjectInputs :
        CreateOrUpdate(token, user_id, None, None, AGENT, FALSE)

SpecValidation == Init /\ [][NextValidation]_vars

\* the credential store under calls whose commit may fail
NextFaults ==
    \/ \E token \in {S1, S2}, user_id \in UserIds, account \in AccountInputs, dbFail \in BOOLEAN :
            CreateOrUpdate(token, user_id, None, account, AGENT, dbFail)
    \/ \E token_id \in 1..MaxId, dbFail \in BOOLEAN : Delete(token_id, dbFail)
    \/ \E token_id \in 1..MaxId, status \in TokenStatus, dbFail \in BOOLEAN :
            UpdateStatus(token_id, status, dbFail)
    \/ \E token_id \in 1..MaxId, dbFail \in BOOLEAN : UpdateLastActive(token_id, dbFail)
    \/ Tick

SpecFaults == Init /\ [][NextFaults]_vars

\* the texts of at most MaxText characters, and no text
Texts == {None} \cup UNION {[1..n -> {TextChars[i] : i \in 1..Len(TextChars)}] : n \in 0..MaxText}

\* time.time() and os.urandom() when Fernet.encrypt runs
Times == {0, 1}
Ivs == 0..(Len(TextChars) - 1)

\* a text is about to be encrypted at some time with some iv
InitCrypto ==
    /\ Init!1 /\ Init!3 /\ Init!4 /\ Init!5 /\ Init!6 /\ Init!7 /\ Init!8 /\ Init!9
    /\ Init!10 /\ Init!11 /\ Init!12 /\ Init!13
    /\ lastCall \in [op : {"none"}, token : Texts, current_time : Times, iv : Ivs,
                     result : {Raises("none")}]

\* crypto.encrypt(token) under the process key
Encrypt ==
    /\ lastCall.op = "none"
    /\ lastCall' = [lastCall EXCEPT !.op = "encrypt",
                        !.result = encrypt(ProcessKey, lastCall.token, lastCall.current_time, lastCall.iv)]
    /\ UNCHANGED <<tokens, connections, chans, now, keeper, notifyLog, sweep, deletePush, apiVars>>

\* crypto.decrypt(encrypted_token) under the process key
Decrypt(encrypted_token) ==
    /\ lastCall.op \in {"none", "encrypt"}
    /\ lastCall' = [lastCall EXCEPT !.op = "decrypt", !.token = encrypted_token,
                        !.result = decrypt(ProcessKey, encrypted_token)]
    /\ UNCHANGED <<tokens, connections, chans, now, keeper, notifyLog, sweep, deletePush, apiVars>>

\* one character of a ciphertext replaced by the other digit
Flipped(c) == {[c EXCEPT ![i] = IF @ = B64Digits[1] THEN B64Digits[2] ELSE B64Digits[1]] : i \in 1..Len(c)}

\* a ciphertext cut short
Truncated(c) == {SubSeq(c, 1, n) : n \in 1..(Len(c) - 1)}

\* a character put into a ciphertext, or behind it
Inserted(c, ch) == {SubSeq(c, 1, n) \o <<ch>> \o SubSeq(c, n + 1, Len(c)) : n \in 0..Len(c)}

\* the same text encrypted by a TokenCrypto of another key
Foreign(text) == {encrypt(ForeignKey, text, t, iv).value : t \in Times, iv \in Ivs}

\* strings that are no Fernet token
Malformed ==
    {<<"!">>, <<"i", "n", "v", "a", "l", "i", "d">>, <<"g", "A">>, <<"A", "A", "A", "A">>,
     urlsafe_b64encode(<<FERNET_VERSION, 0, 0>> \o hmac(signing_key(ProcessKey), <<>>))}

\* what decrypt is called with after encrypt has returned c for text
Alterations(c) ==
    Flipped(c) \cup Truncated(c) \cup Inserted(c, B64Digits[1]) \cup Inserted(c, B64Digits[2])

NextCrypto ==
    \/ Encrypt
    \/ \E encrypted_token \in {None, <<>>} \cup Malformed : Decrypt(encrypted_token)
    \/ /\ lastCall.op = "encrypt"
       /\ lastCall.result.outcome = "ok"
       /\ \E encrypted_token \in {lastCall.result.value} \cup Alterations(lastCall.result.value)
                                    \cup Inserted(lastCall.result.value, "!")
                                    \cup Foreign(lastCall.token) :
            Decrypt(encrypted_token)

\* notify_all_expired_tokens not called yet
InitNotifyAll ==
    /\ Init!1 /\ Init!2 /\ Init!3 /\ Init!4 /\ Init!5 /\ Init!7 /\ Init!8 /\ Init!9
    /\ Init!10 /\ Init!11 /\ Init!12 /\ Init!13
    /\ keeper = NotifyIdle

\* notify_all_expired_tokens while agents register, upload and go away and credentials
\* are marked expired
NextNotifyAll ==
    \/ \E c \in Channels :
        \/ Open(c)
        \/ \E extension_id \in ExtIds : FirstMessage(c, Register(extension_id))
        \/ \E raw \in {Upload(S1, U1), Upload(S2, U2)} : LoopMessage(c, raw, FALSE)
        \/ ClientClose(c)
        \/ HandlerDisconnect(c)
    \/ \E token_id \in 1..MaxId : UpdateStatus(token_id, EXPIRED, FALSE)
    \/ \E dbFail \in BOOLEAN : NotifyAllExpired(dbFail)
    \/ NotifyAllSent

SpecNotifyAll == InitNotifyAll /\ [][NextNotifyAll]_vars

\* neither service started
InitLoops ==
    /\ Init!1 /\ Init!2 /\ Init!3 /\ Init!4 /\ Init!5 /\ Init!6 /\ Init!7 /\ Init!9
    /\ Init!10 /\ Init!11 /\ Init!12 /\ Init!13
    /\ sweep = CheckerIdle

\* the two background loops under starts and stops, their cycles and sweeps returning
\* or raising
NextLoops ==
    \/ Start
    \/ Stop
    \/ StopReturn
    \/ \E i \in 1..MaxTasks :
        \/ CancelDelivered(i)
        \/ TaskBegin(i)
        \/ \E suspends \in BOOLEAN : TaskWake(i, suspends)
        \/ CycleReturn(i)
        \/ CycleRaise(i)
    \/ StartHeartbeatChecker
    \/ StopHeartbeatChecker
    \/ StopHeartbeatReturn
    \/ HeartbeatCancelDelivered
    \/ HeartbeatBegin
    \/ HeartbeatWake
    \/ \E raises \in BOOLEAN : SweepEnd(raises)

\* asyncio resumes a task whose sleep is over
SpecLoops ==
    /\ InitLoops
    /\ [][NextLoops]_vars
    /\ \A i \in 1..MaxTasks : WF_vars(\E suspends \in BOOLEAN : TaskWake(i, suspends))
    /\ WF_vars(HeartbeatWake)

SpecCrypto == InitCrypto /\ [][NextCrypto]_vars

\* the longest secret that is masked
MaxMask == 20

\* a secret of n characters: the digits in their order, from the one at off
DigitRow == <<"0", "1", "2", "3", "4", "5", "6", "7", "8", "9">>
Counted(n, off) == [i \in 1..n |-> DigitRow[((i + off) % Len(DigitRow)) + 1]]

MaskInputs == {None} \cup {Counted(n, off) : n \in 0..MaxMask, off \in 0..(Len(DigitRow) - 1)}

\* a secret is about to be masked
InitMask ==
    /\ Init!1 /\ Init!3 /\ Init!4 /\ Init!5 /\ Init!6 /\ Init!7 /\ Init!8 /\ Init!9
    /\ Init!10 /\ Init!11 /\ Init!12 /\ Init!13
    /\ lastCall \in [op : {"none"}, token : MaskInputs, result : {Raises("none")}]

\* mask_token(token)
MaskToken ==
    /\ lastCall.op = "none"
    /\ lastCall' = [lastCall EXCEPT !.op = "mask_token", !.result = Returns(mask_token(lastCall.token))]
    /\ UNCHANGED <<tokens, connections, chans, now, keeper, notifyLog, sweep, deletePush, apiVars>>

NextMask == MaskToken

SpecMask == InitMask /\ [][NextMask]_vars

----------------------------------------------------------------------------
(* Properties *)

\* the step is a call of create_or_update from outside, with input the validators accept
\* and no storage fault
CreateStep ==
    /\ lastCall'.seq # lastCall.seq
    /\ lastCall'.op = "create_or_update"
    /\ lastCall'.outcome # "ValidationError"
    /\ ~lastCall'.fault

\* the rows that hold business key key
RowsOfKey(rows, key) == {r \in rows : BusinessKey(r) = key}

\* C1: whatever calls of create_or_update, delete, update_status and update_last_active
\* have been made, no two stored rows have the same business key (account, or user_id
\* when the row has no account).
C1_OneRowPerBusinessKey ==
    \A r1, r2 \in tokens : BusinessKey(r1) = BusinessKey(r2) => r1 = r2

\* create_or_update was called again for a key that has a row, the INSERT was refused, and
\* the key still has its one row
C1_Witness ==
    /\ lastCall.op = "create_or_update"
    /\ lastCall.seq >= 2
    /\ lastCall.outcome = "StorageError"
    /\ Cardinality(RowsOfKey(tokens, lastCall.key)) = 1
    /\ Cardinality(tokens) = 2

\* C2: a call of create_or_update with valid input for a business key that already has a
\* row (an account, or a user_id given without account) succeeds, returns the id of that
\* row, leaves the number of rows unchanged, and the stored secret decrypts to the secret
\* of this call.
C2_SecondCallUpdatesInPlace ==
    [][(CreateStep /\ RowsOfKey(tokens, lastCall'.key) # {}) =>
          \E r \in RowsOfKey(tokens, lastCall'.key) :
              /\ lastCall'.outcome = "ok"
              /\ lastCall'.id = r.id
              /\ Cardinality(tokens') = Cardinality(tokens)
              /\ get_by_id(tokens', r.id) # {}
              /\ ~decrypt_fails(RowOf(tokens', r.id).token_value)
              /\ decrypt_token(RowOf(tokens', r.id).token_value) = lastCall'.token]_vars

\* the step is the return of the probe of token keeper.i, and what came back is in keeper'.last
ProbeStep == keeper.pc = "probing" /\ Len(keeper'.outcomes) > Len(keeper.outcomes)

\* the bucket the probed token was counted in
ProbeBucket == keeper'.outcomes[Len(keeper.outcomes) + 1]

\* the source system rejected the secret
Rejected(resp) == resp.kind = "http" /\ resp.status_code \in {401, 403}

\* the probe says nothing about the secret
Inconclusive(resp) ==
    \/ resp.kind \in {"timeout", "request_error"}
    \/ resp.kind = "http" /\ resp.status_code >= 500

\* the source system accepted the secret: 2xx, and for a NETWORK account a JSON body of a
\* 200 reports success
Succeeded(account_type, resp) ==
    /\ resp.kind = "http"
    /\ resp.status_code >= 200 /\ resp.status_code < 300
    /\ (account_type = NETWORK /\ resp.status_code = 200 /\ resp.body # "text") => resp.body = "succ"

\* keep_alive raises in this step: the probe raised, the row is gone, or the store failed
KeepAliveRaises ==
    \/ keeper'.last.resp.kind = "exception"
    \/ keeper'.last.fault
    \/ get_by_id(tokens, keeper'.last.id) = {}

\* C3: status lifecycle.  A row is ACTIVE right after the create_or_update that inserts
\* it; a rejected probe (401/403) moves the probed row from ACTIVE to EXPIRED; a later
\* successful create_or_update for a key that has a row returns that row's id and leaves
\* the row ACTIVE, whatever its status was.
C3_StatusLifecycle ==
    [][/\ (CreateStep /\ lastCall'.outcome = "ok" /\ RowsOfKey(tokens, lastCall'.key) = {}) =>
            /\ lastCall'.id \notin Ids(tokens)
            /\ RowOf(tokens', lastCall'.id).status = ACTIVE
       /\ (ProbeStep /\ Rejected(keeper'.last.resp) /\ ~KeepAliveRaises) =>
            /\ RowOf(tokens, keeper'.last.id).status = ACTIVE
            /\ RowOf(tokens', keeper'.last.id).status = EXPIRED
       /\ (CreateStep /\ lastCall'.outcome = "ok" /\ RowsOfKey(tokens, lastCall'.key) # {}) =>
            \E r \in RowsOfKey(tokens, lastCall'.key) :
                /\ lastCall'.id = r.id
                /\ RowOf(tokens', r.id).status = ACTIVE]_vars

\* the cycle expired a row on a rejected probe, and a later upload for its key left the
\* same row ACTIVE
C3_Witness ==
    /\ keeper.pc = "done"
    /\ Rejected(keeper.last.resp)
    /\ keeper.outcomes = <<"expired">>
    /\ lastCall.op = "create_or_update"
    /\ lastCall.outcome = "ok"
    /\ lastCall.id = keeper.last.id
    /\ lastCall.seq >= 2
    /\ get_by_id(tokens, lastCall.id) # {}
    /\ RowOf(tokens, lastCall.id).status = ACTIVE

\* C5: a probe that comes back inconclusive (timeout, network error, 5xx), for an AGENT or
\* a NETWORK account, changes no row's status.
C5_InconclusiveKeepsStatus ==
    [][(ProbeStep /\ Inconclusive(keeper'.last.resp)) =>
          \A r \in tokens : /\ get_by_id(tokens', r.id) # {}
                            /\ RowOf(tokens', r.id).status = r.status]_vars

\* a cycle probed a NETWORK account, got a 500, and the row is ACTIVE
C5_Witness ==
    /\ keeper.pc = "done"
    /\ keeper.last.account_type = NETWORK
    /\ keeper.last.resp = Http(500, "text")
    /\ get_by_id(tokens, keeper.last.id) # {}
    /\ RowOf(tokens, keeper.last.id).status = ACTIVE
    /\ RowOf(tokens, keeper.last.id).account_type = NETWORK

\* C6: when the probe of a credential succeeds and keep_alive does not raise, the row's
\* last_active_at is set (to the time of the call), the row is ACTIVE before and after,
\* and the credential is counted success.
C6_SuccessTouchesLastActive ==
    [][(ProbeStep /\ Succeeded(keeper'.last.account_type, keeper'.last.resp) /\ ~KeepAliveRaises) =>
          /\ RowOf(tokens', keeper'.last.id).last_active_at = <<now>>
          /\ RowOf(tokens', keeper'.last.id).last_active_at # NoTime
          /\ RowOf(tokens, keeper'.last.id).status = ACTIVE
          /\ RowOf(tokens', keeper'.last.id).status = ACTIVE
          /\ ProbeBucket = "success"]_vars

\* a cycle probed a NETWORK account, the body reported success, and the row carries a timestamp
C6_Witness ==
    /\ keeper.pc = "done"
    /\ keeper.last.account_type = NETWORK
    /\ keeper.last.resp = Http(200, "succ")
    /\ keeper.outcomes = <<"success">>
    /\ get_by_id(tokens, keeper.last.id) # {}
    /\ RowOf(tokens, keeper.last.id).last_active_at # NoTime
    /\ RowOf(tokens, keeper.last.id).status = ACTIVE

\* how often bucket occurs in outcomes
Occurrences(outcomes, bucket) == Cardinality({j \in 1..Len(outcomes) : outcomes[j] = bucket})

\* C7: an error while one credential is processed (its secret does not decrypt, the probe
\* raises, the store fails, the row was deleted meanwhile) counts that credential failed,
\* once, and the loop goes on: every credential fetched for the cycle is processed by
\* the time the cycle returns.
C7_ErrorsAreIsolated ==
    /\ [](/\ Len(keeper.outcomes) = keeper.i - 1
          /\ keeper.pc = "done" => Len(keeper.outcomes) = Len(keeper.active_tokens)
          /\ keeper.cycle_stats.failed = Occurrences(keeper.outcomes, "failed")
          /\ \A j \in 1..Len(keeper.outcomes) :
                decrypt_fails(Current(tokens, keeper.active_tokens[j]).token_value)
                    => keeper.outcomes[j] = "failed")
    /\ [][(ProbeStep /\ KeepAliveRaises) =>
            /\ ProbeBucket = "failed"
            /\ keeper'.cycle_stats.failed > keeper.cycle_stats.failed
            /\ keeper'.pc \in {"probing", "done"}
            /\ keeper'.pc = "done" => keeper'.i = Len(keeper'.active_tokens) + 1]_vars

\* the first of two credentials failed on an error of its probe or of the store, and the
\* second was probed and counted
C7_Witness ==
    /\ keeper.pc = "done"
    /\ Len(keeper.outcomes) = 2
    /\ keeper.outcomes[1] = "failed"
    /\ keeper.outcomes[2] = "success"
    /\ ~decrypt_fails(Current(tokens, keeper.active_tokens[1]).token_value)
    /\ keeper.cycle_stats = [total |-> 2, success |-> 1, failed |-> 1, expired |-> 0]

\* the positions, in dict order, of the registry entries bound to user_id
BoundTo(conns, user_id) == {i \in 1..Len(conns) : conns[i].user_id = user_id}

\* C4: when the probe of a stored credential is rejected (401 or 403) and keep_alive does
\* not raise, the row becomes EXPIRED, the credential is counted expired (not failed), and
\* exactly one notification attempt follows: with no connection bound to the row's
\* user_id the attempt ends at once as "no connection", without an error; with one, a
\* TOKEN_EXPIRED envelope goes to the first connection bound to that user_id, and the
\* attempt ends sent or failed.  At every moment the attempts made or under way are as
\* many as the credentials counted expired.
C4_RejectedExpiresAndNotifiesOnce ==
    /\ [](Occurrences(keeper.outcomes, "expired")
            = Len(notifyLog) + (IF keeper.pc = "sending" THEN 1 ELSE 0))
    /\ [][(ProbeStep /\ Rejected(keeper'.last.resp) /\ ~KeepAliveRaises) =>
            LET user_id == RowOf(tokens, keeper'.last.id).user_id
                bound == BoundTo(connections, user_id)
            IN  /\ RowOf(tokens', keeper'.last.id).status = EXPIRED
                /\ ProbeBucket = "expired"
                /\ keeper'.cycle_stats.expired = keeper.cycle_stats.expired + 1
                /\ keeper'.cycle_stats.failed = keeper.cycle_stats.failed
                /\ IF bound = {}
                   THEN /\ notifyLog' = Append(notifyLog, Attempt(user_id, None, "no_connection"))
                        /\ keeper'.pc # "sending"
                   ELSE /\ notifyLog' = notifyLog
                        /\ keeper'.pc = "sending"
                        /\ keeper'.send[1].user_id = user_id
                        /\ keeper'.send[1].websocket = connections[Min(bound)].websocket]_vars
    /\ [][(keeper.pc = "sending" /\ keeper'.pc # "sending") =>
            LET snd == keeper.send[1]
                attempt == notifyLog'[Len(notifyLog')]
            IN  /\ Len(notifyLog') = Len(notifyLog) + 1
                /\ attempt.user_id = snd.user_id
                /\ attempt.result \in {"sent", "failed"}
                /\ attempt.result = "sent" <=>
                      chans'[snd.websocket].sent
                          = Append(chans[snd.websocket].sent, Envelope(TOKEN_EXPIRED, snd.user_id))
                /\ keeper'.cycle_stats = keeper.cycle_stats]_vars

\* a cycle expired two credentials: the agent bound to the subject of one received the
\* notice, and the attempt for the other found no connection
C4_Witness ==
    /\ keeper.pc = "done"
    /\ keeper.cycle_stats = [total |-> 2, success |-> 0, failed |-> 0, expired |-> 2]
    /\ Len(notifyLog) = 2
    /\ {notifyLog[1].result, notifyLog[2].result} = {"sent", "no_connection"}
    /\ \A r \in tokens : r.status = EXPIRED
    /\ \E c \in Channels : \E j \in 1..Len(chans[c].sent) : chans[c].sent[j].type = TOKEN_EXPIRED

\* C8: when the first message on a fresh channel is a valid envelope of a type other than
\* REGISTER, the server sends one ERROR envelope, the channel is closed and its endpoint
\* has returned, and the registry is what it was.
C8_FirstMessageMustBeRegister ==
    [][\A c \in Channels :
          (chans[c].pc = "accepted" /\ chans[c].first = "none"
              /\ chans'[c].first \in MessageType \ {REGISTER}) =>
            /\ chans'[c].sent = Append(chans[c].sent, Envelope(ERROR, <<>>))
            /\ ~chans'[c].open
            /\ chans'[c].pc = "done"
            /\ connections' = connections]_vars

\* c2 sent HEARTBEAT first and got ERROR and a closed channel, while c1 is registered
C8_Witness ==
    /\ chans["c2"].first = HEARTBEAT
    /\ chans["c2"].sent = <<Envelope(ERROR, <<>>)>>
    /\ ~chans["c2"].open
    /\ chans["c1"].pc = "loop"
    /\ chans["c1"].open
    /\ Len(connections) = 1
    /\ connections[1].websocket = "c1"

\* C9: at most one live connection per extension id.  No two channels registered for the
\* same extension id are open together, and whenever a channel gets registered, by
\* WebSocketManager.connect or by the channel endpoint, the registry entry of its
\* extension id refers to it and the channel the entry referred to before is closed.
C9_OneLiveConnectionPerAgent ==
    /\ [](\A c1, c2 \in Channels :
            (/\ c1 # c2
             /\ chans[c1].pc \in {"loop", "managed"}
             /\ chans[c2].pc \in {"loop", "managed"}
             /\ chans[c1].extension_id = chans[c2].extension_id)
                => ~(chans[c1].open /\ chans[c2].open))
    /\ [][\A c \in Channels :
            (chans[c].pc \in {"idle", "accepted"} /\ chans'[c].pc \in {"loop", "managed"}) =>
                LET extension_id == chans'[c].extension_id
                IN  /\ Has(connections', extension_id)
                    /\ Lookup(connections', extension_id).websocket = c
                    /\ Has(connections, extension_id) =>
                          ~chans'[Lookup(connections, extension_id).websocket].open]_vars

\* older than 3 times the heartbeat interval, strictly
Stale(conn_info, t) == t - conn_info.last_heartbeat > 3 * WS_HEARTBEAT_INTERVAL

\* the step is the scan of a sweep, with the first disconnect if anything was stale
ScanStep ==
    /\ sweep.pc = "idle"
    /\ \/ sweep' # sweep
       \/ /\ Len(connections') < Len(connections)
          /\ deletePush' = deletePush
          /\ \A c \in Channels : chans'[c].pc = chans[c].pc

\* the step is a disconnect made by the sweep, of the last id in sweep'.evicted
EvictStep ==
    \/ ScanStep /\ sweep'.evicted # <<>>
    \/ sweep.pc = "evicting" /\ sweep' # sweep

\* the step is the lookup of a send_to_extension call
PushLookupStep ==
    /\ deletePush.result # "pending"
    /\ deletePush' # deletePush
    /\ deletePush'.result \in {"not_found", "pending"}

Range(seq) == {seq[j] : j \in 1..Len(seq)}

\* C10: a sweep disconnects every connection whose last heartbeat is older than 3 times
\* the heartbeat interval (strictly) and none whose last heartbeat is within it; the id a
\* sweep disconnects is not in the registry afterwards, and send_to_extension for an id
\* that is not in the registry returns not-found.
C10_SweepEvictsExactlyTheStale ==
    [][/\ ScanStep =>
            \A i \in 1..Len(connections) :
                Stale(connections[i], now) =>
                    connections[i].extension_id
                        \in Range(sweep'.evicted) \cup Range(sweep'.expired_extensions)
       /\ EvictStep =>
            LET extension_id == sweep'.evicted[Len(sweep'.evicted)]
            IN  /\ ~Has(connections', extension_id)
                /\ Has(connections, extension_id) => Stale(Lookup(connections, extension_id), now)
       /\ PushLookupStep =>
            (deletePush'.result = "not_found" <=> ~Has(connections, deletePush'.extension_id))]_vars

\* the step is a call of op on the registry made directly
MgrCallStep(op) == mgr'.calls = mgr.calls + 1 /\ mgr'.op = op

\* C11: disconnect of an id that has an entry removes that entry, leaves the others, and
\* closes the entry's channel before it returns True; disconnect of an id without entry
\* (a second disconnect of the same id included) changes neither the registry nor any
\* channel and returns False without raising.
C11_DisconnectIsIdempotent ==
    [][/\ MgrCallStep("disconnect") =>
            LET extension_id == mgr'.extension_id
            IN  IF Has(connections, extension_id)
                THEN /\ ~Has(connections', extension_id)
                     /\ connections' = Pop(connections, extension_id)
                     /\ mgr'.result = "closing"
                     /\ mgr'.popped = Lookup(connections, extension_id).websocket
                ELSE /\ connections' = connections
                     /\ chans' = chans
                     /\ mgr'.result = "absent"
       /\ (mgr.op = "disconnect" /\ mgr.result = "closing" /\ mgr' # mgr) =>
            /\ mgr'.result = "ok"
            /\ ~chans'[mgr.popped].open]_vars

\* an id was disconnected, its channel is closed, and the next disconnect of it found it absent
C11_Witness ==
    /\ mgr.op = "disconnect"
    /\ mgr.result = "absent"
    /\ mgr.calls >= 2
    /\ \E c \in Channels :
          /\ chans[c].extension_id = mgr.extension_id
          /\ chans[c].pc = "loop"
          /\ ~chans[c].open
          /\ Len(chans[c].sent) = 1

\* C12: send_to_extension for an id without entry returns not-found and sends nothing;
\* when send_json raises, the entry of that id is taken out of the registry and the call
\* returns failure; when send_json succeeds the message is delivered, the registry is
\* unchanged and the call returns success.
C12_SendToExtensionOutcomes ==
    [][/\ MgrCallStep("send_to_extension") =>
            /\ mgr'.result = "not_found" <=> ~Has(connections, mgr'.extension_id)
            /\ mgr'.result \in {"not_found", "pending"}
            /\ chans' = chans
            /\ connections' = connections
       /\ (mgr.op = "send_to_extension" /\ mgr.result = "pending" /\ mgr' # mgr) =>
            IF CanSend(chans, mgr.websocket)
            THEN /\ mgr'.result = "sent"
                 /\ connections' = connections
                 /\ chans' = [chans EXCEPT ![mgr.websocket].sent = Append(@, Notice)]
            ELSE /\ mgr'.result \in {"closing", "failed"}
                 /\ ~Has(connections', mgr.extension_id)
                 /\ \A c \in Channels : chans'[c].sent = chans[c].sent
       /\ (mgr.op = "send_to_extension" /\ mgr.result = "closing" /\ mgr' # mgr) =>
            /\ mgr'.result = "failed"
            /\ connections' = connections]_vars

\* a send failed on a channel the peer had closed, and the id is no longer registered
C12_Witness ==
    /\ mgr.op = "send_to_extension"
    /\ mgr.result = "failed"
    /\ mgr.websocket # "none"
    /\ ~Has(connections, mgr.extension_id)

\* the ids of the attempts of the broadcast that ended with result
AttemptIds(result) ==
    {bcast.attempts[j].extension_id : j \in {k \in 1..Len(bcast.attempts) : bcast.attempts[k].result = result}}

\* C13: broadcast takes as targets exactly the connections registered when it collects them
\* whose id is not in exclude; it makes one send attempt per target, on the target's
\* channel and on no other; it returns the number of attempts that succeeded; every id
\* whose send failed is disconnected before it returns, and no step of the broadcast
\* touches the entry of an id whose send succeeded.
C13_BroadcastTargetsAndCount ==
    /\ [][/\ (bcast.pc = "idle" /\ bcast' # bcast) =>
               /\ {bcast'.targets[j].extension_id : j \in 1..Len(bcast'.targets)}
                       = Keys(connections) \ bcast'.exclude
               /\ Len(bcast'.targets) = Cardinality(Keys(connections) \ bcast'.exclude)
               /\ \A j \in 1..Len(bcast'.targets) :
                     bcast'.targets[j].websocket
                         = Lookup(connections, bcast'.targets[j].extension_id).websocket
               /\ chans' = chans /\ connections' = connections
          /\ (bcast.pc = "sending" /\ bcast' # bcast) =>
               LET target == bcast.targets[bcast.i]
                   attempt == bcast'.attempts[Len(bcast'.attempts)]
               IN  /\ Len(bcast'.attempts) = Len(bcast.attempts) + 1
                   /\ attempt.extension_id = target.extension_id
                   /\ target.extension_id \notin bcast.exclude
                   /\ \A c \in Channels : c # target.websocket => chans'[c] = chans[c]
                   /\ attempt.result = "sent" <=>
                         chans'[target.websocket].sent = Append(chans[target.websocket].sent, Notice)
                   /\ attempt.result = "failed" <=> chans' = chans
                   /\ connections' = connections
          /\ (bcast.pc = "evicting" /\ bcast' # bcast) =>
               LET extension_id == bcast'.evicted[Len(bcast'.evicted)]
               IN  /\ extension_id \in AttemptIds("failed")
                   /\ ~Has(connections', extension_id)
                   /\ \A id \in AttemptIds("sent") :
                         Has(connections, id) =>
                           Has(connections', id) /\ Lookup(connections', id) = Lookup(connections, id)]_vars
    /\ [](bcast.pc = "done" =>
            /\ Len(bcast.attempts) = Len(bcast.targets)
            /\ bcast.result = Cardinality(AttemptIds("sent"))
            /\ {bcast.evicted[j] : j \in 1..Len(bcast.evicted)} = AttemptIds("failed"))

\* a broadcast to two connections returned 1: one send succeeded and that connection is
\* still registered, the other failed and its id was disconnected
C13_Witness ==
    /\ bcast.pc = "done"
    /\ Len(bcast.targets) = 2
    /\ bcast.result = 1
    /\ Len(bcast.evicted) = 1
    /\ \A id \in AttemptIds("sent") : Has(connections, id)
    /\ \A id \in AttemptIds("failed") : ~Has(connections, id)

LiveTasks == {i \in 1..Len(sched.tasks) : Live(sched.tasks[i])}

\* the scheduler's state apart from the note of the latest call
SchedCore(sc) == [running |-> sc.running, task |-> sc.task, tasks |-> sc.tasks, stop |-> sc.stop]

\* start() or stop() is called in the step
CallMade == sched'.calls # sched.calls

\* a cycle begins in the step
CycleBegins(i) == i <= Len(sched.tasks) /\ sched'.tasks[i].cycles > sched.tasks[i].cycles

\* C14: start() while running creates no loop task and changes nothing; stop() while not
\* running changes nothing; when stop() returns, the loop task it cancelled has ended, no
\* loop task is left, is_running is false, and a cycle begins only while the service is
\* running, that is, not before the next start().
C14_StartStopIdempotent ==
    /\ [][/\ sched.running => Len(sched'.tasks) = Len(sched.tasks)
          /\ (CallMade /\ sched'.last = "start_ignored") =>
                sched.running /\ SchedCore(sched') = SchedCore(sched)
          /\ (CallMade /\ sched.running) => sched'.last \in {"start_ignored", "stopping", "stopped"}
          /\ (CallMade /\ sched'.last = "stop_ignored") =>
                ~sched.running /\ SchedCore(sched') = SchedCore(sched)
          /\ (CallMade /\ ~sched.running) => sched'.last \in {"stop_ignored", "started"}
          /\ (sched.stop = "awaiting" /\ sched'.stop = "idle") =>
                /\ ~Live(sched.tasks[sched.task])
                /\ LiveTasks = {}
                /\ ~sched'.running
                /\ sched'.task = 0
          /\ \A i \in 1..MaxTasks : CycleBegins(i) => sched.running]_vars
    /\ []((~sched.running /\ sched.stop = "idle") => LiveTasks = {})
    /\ [](Cardinality(LiveTasks) <= 1)

\* the service ran a cycle, was stopped, and a second stop() was ignored
C14_Witness ==
    /\ sched.last = "stop_ignored"
    /\ ~sched.running
    /\ Len(sched.tasks) = 1
    /\ sched.tasks[1].pc = "ended"
    /\ sched.tasks[1].cycles = 1

InCycle == {i \in 1..Len(sched.tasks) : sched.tasks[i].pc = "cycle"}

\* C15: at no moment are two executions of run_keep_alive_cycle in progress, and a cycle
\* begins only when none is in progress.
C15_CyclesAreSequential ==
    /\ [](Cardinality(InCycle) <= 1)
    /\ [][\A i \in 1..MaxTasks : CycleBegins(i) => InCycle = {}]_vars

\* after start(), a cycle, stop() and start() again, the second loop task is inside a cycle
C15_Witness ==
    /\ Len(sched.tasks) = 2
    /\ sched.tasks[1].pc = "ended"
    /\ sched.tasks[1].cycles = 1
    /\ sched.tasks[2].pc = "cycle"
    /\ sched.running

\* C16: every mutation of the registry (registration, disconnect, send-triggered
\* eviction, heartbeat update, subject binding) is made by the task that holds the
\* manager's lock: while another task holds the lock, suspended inside its critical
\* section, the registry does not change.
C16_MutationsHoldTheLock ==
    [][lock # "free" => connections' = connections]_vars

\* the call is refused as not found and the store is as it was
RefusedAsNotFound == lastCall'.outcome = "NotFoundError" /\ tokens' = tokens

\* C17: delete, update_status and update_last_active, called with an id no row has,
\* fail with NotFoundError and leave the store unchanged.
C17_IdKeyedCallsOnAbsentId ==
    [][\A token_id \in 1..MaxId :
          get_by_id(tokens, token_id) = {} =>
            /\ Delete(token_id, FALSE) => RefusedAsNotFound
            /\ UpdateLastActive(token_id, FALSE) => RefusedAsNotFound
            /\ \A status \in TokenStatus :
                  UpdateStatus(token_id, status, FALSE) => RefusedAsNotFound]_vars

\* a call keyed by id 2 was refused as not found while the store holds a row with id 1
C17_Witness ==
    /\ lastCall.op \in {"delete", "update_status", "update_last_active"}
    /\ lastCall.outcome = "NotFoundError"
    /\ Ids(tokens) = {1}

\* the TOKEN_DELETED envelopes a channel was sent
DeletedNotices(chs, c) == Cardinality({j \in 1..Len(chs[c].sent) : chs[c].sent[j].type = TOKEN_DELETED})

\* C18: delete_token of a stored id removes exactly that row: afterwards get_by_id of the
\* id and get_by_user of its subject find nothing and every other row is as it was.  If
\* the row names an agent and the registry holds a connection of that agent, exactly one
\* TOKEN_DELETED about the row's subject is sent, to that connection's channel and to no
\* other; if no such connection exists, or the channel no longer takes the send, the
\* row is deleted all the same and nothing is sent.
C18_DeleteRemovesRowAndNotifies ==
    [][/\ \A token_id \in 1..MaxId :
            (get_by_id(tokens, token_id) # {} /\ DeleteToken(token_id, FALSE)) =>
                LET token == RowOf(tokens, token_id)
                    connected == Truthy(token.extension_id) /\ Has(connections, token.extension_id)
                IN  /\ tokens' = tokens \ {token}
                    /\ get_by_id(tokens', token_id) = {}
                    /\ get_by_user(tokens', token.user_id) = {}
                    /\ chans' = chans
                    /\ connected =>
                          /\ deletePush'.result = "pending"
                          /\ deletePush'.websocket = Lookup(connections, token.extension_id).websocket
                          /\ deletePush'.user_id = token.user_id
                    /\ ~connected => deletePush'.result \in {"none", "not_found"}
       /\ (deletePush.result = "pending" /\ deletePush' # deletePush) =>
            /\ tokens' = tokens
            /\ \A c \in Channels : c # deletePush.websocket => chans'[c].sent = chans[c].sent
            /\ IF CanSend(chans, deletePush.websocket)
               THEN /\ deletePush'.result = "sent"
                    /\ chans'[deletePush.websocket].sent =
                          Append(chans[deletePush.websocket].sent,
                                 Envelope(TOKEN_DELETED, deletePush.user_id))
               ELSE /\ deletePush'.result = "failed"
                    /\ chans'[deletePush.websocket].sent = chans[deletePush.websocket].sent
       /\ (deletePush.result # "pending" /\ ~(\E token_id \in 1..MaxId : DeleteToken(token_id, FALSE))) =>
            \A c \in Channels : DeletedNotices(chans', c) = DeletedNotices(chans, c)]_vars

\* one of two stored rows was deleted and the agent that uploaded it got the one notice;
\* the other row is still stored
C18_Witness ==
    /\ deletePush.result = "sent"
    /\ Cardinality(tokens) = 1
    /\ get_by_user(tokens, deletePush.user_id) = {}
    /\ DeletedNotices(chans, deletePush.websocket) = 1

\* the registry entries that refer to channel c: its connection
ConnOf(conns, c) == {conns[j] : j \in {i \in 1..Len(conns) : conns[i].websocket = c}}

TheConn(conns, c) == CHOOSE conn \in ConnOf(conns, c) : TRUE

\* the state of a channel: UNREGISTERED until its REGISTER is accepted, REGISTERED while
\* its connection has no subject, BOUND while it has one, TERMINATED when the handler
\* has returned or the registry holds no connection of the channel any more
ChannelState(conns, chs, c) ==
    IF chs[c].pc \in {"idle", "accepted"} THEN "UNREGISTERED"
    ELSE IF chs[c].pc = "loop" /\ ConnOf(conns, c) # {}
    THEN IF TheConn(conns, c).user_id = None THEN "REGISTERED" ELSE "BOUND"
    ELSE "TERMINATED"

\* the last envelope channel c was sent
LastSent(chs, c) == chs[c].sent[Len(chs[c].sent)]

\* C19: a channel's state changes only UNREGISTERED -> REGISTERED, by a valid REGISTER on
\* the channel, REGISTERED -> BOUND, by a TOKEN_UPLOAD on the channel that is stored and
\* whose subject the connection then carries, and from any state to TERMINATED; a
\* HEARTBEAT on a REGISTERED or BOUND channel sets its connection's last_heartbeat to the
\* current time and changes neither state nor subject; an upload that is refused
\* changes neither.
C19_ConnectionStateMachine ==
    [][\A c \in Channels :
          LET before == ChannelState(connections, chans, c)
              after  == ChannelState(connections', chans', c)
          IN  /\ before # after =>
                    \/ after = "TERMINATED"
                    \/ /\ before = "UNREGISTERED"
                       /\ after = "REGISTERED"
                       /\ \E extension_id \in ExtIds : FirstMessage(c, Register(extension_id))
                    \/ /\ before = "REGISTERED"
                       /\ after = "BOUND"
                       /\ \E raw \in ChannelMessages, dbFail \in BOOLEAN :
                            /\ LoopMessage(c, raw, dbFail)
                            /\ raw.obj.type = TOKEN_UPLOAD
                            /\ LastSent(chans', c) = Envelope(TOKEN_ACK, Ack(TRUE))
                            /\ TheConn(connections', c).user_id = raw.obj.payload.userId
              /\ (before \in {"REGISTERED", "BOUND"}
                    /\ \E dbFail \in BOOLEAN : LoopMessage(c, Heartbeat, dbFail)) =>
                    /\ after = before
                    /\ TheConn(connections', c).user_id = TheConn(connections, c).user_id
                    /\ TheConn(connections', c).last_heartbeat = now
              /\ (before \in {"REGISTERED", "BOUND"}
                    /\ \E raw \in ChannelMessages, dbFail \in BOOLEAN :
                          /\ LoopMessage(c, raw, dbFail)
                          /\ raw.obj.type = TOKEN_UPLOAD
                          /\ LastSent(chans', c) # Envelope(TOKEN_ACK, Ack(TRUE))) =>
                    /\ after = before
                    /\ TheConn(connections', c).user_id = TheConn(connections, c).user_id]_vars

SentTypes(chs, c) == [j \in 1..Len(chs[c].sent) |-> chs[c].sent[j].type]

\* channel c was sent exactly one envelope in the step, of the given type, and no other
\* channel was sent anything
AnsweredBy(c, type) ==
    /\ SentTypes(chans', c) = Append(SentTypes(chans, c), type)
    /\ \A d \in Channels \ {c} : chans'[d].sent = chans[d].sent

\* the first envelope a channel is sent after its valid REGISTER is REGISTER_ACK
RegisterAckFirst ==
    \A c \in Channels :
        FirstMessage(c, Register(E1)) => SentTypes(chans', c) = <<REGISTER_ACK>>

\* every HEARTBEAT is answered by one HEARTBEAT_ACK before the next request is read
HeartbeatsAnswered ==
    \A c \in Channels, dbFail \in BOOLEAN :
        LoopMessage(c, Heartbeat, dbFail) => AnsweredBy(c, HEARTBEAT_ACK)

\* no TOKEN_ACK or HEARTBEAT_ACK is sent on a channel before its REGISTER_ACK
NoAckBeforeRegisterAck ==
    \A c \in Channels :
        \A j \in 1..Len(chans[c].sent) :
            chans[c].sent[j].type \in {TOKEN_ACK, HEARTBEAT_ACK} =>
                j > 1 /\ chans[c].sent[1].type = REGISTER_ACK

Pushes(chs, c) ==
    Cardinality({j \in 1..Len(chs[c].sent) : chs[c].sent[j].type \in {TOKEN_EXPIRED, TOKEN_DELETED}})

\* C21: a TOKEN_EXPIRED or TOKEN_DELETED envelope is sent only on a channel whose
\* connection is BOUND when it is sent; an unregistered channel and a registered channel
\* with no subject attached are never sent either.
C21_PushesOnlyToBound ==
    [][\A c \in Channels :
          Pushes(chans', c) > Pushes(chans, c) => ChannelState(connections, chans, c) = "BOUND"]_vars

\* C22: a message whose payload fails the validator of its type has no effect: such a
\* REGISTER creates no registry entry, such a TOKEN_UPLOAD stores nothing and binds
\* nothing, and a HEARTBEAT that does not name its agent refreshes no last_heartbeat.
C22_InvalidPayloadHasNoEffect ==
    [][\A c \in Channels :
          /\ \A raw \in BadRegisters :
                FirstMessage(c, raw) => connections' = connections /\ tokens' = tokens
          /\ \A raw \in BadUploads :
                LoopMessage(c, raw, FALSE) => connections' = connections /\ tokens' = tokens
          /\ \A raw \in {Heartbeat, HeartbeatOf(E1)} :
                (validate_heartbeat_payload_fails(raw.obj.payload) /\ LoopMessage(c, raw, FALSE)) =>
                    connections' = connections /\ tokens' = tokens]_vars

\* C23: on a registered channel a message that does not parse, lacks type, timestamp or
\* payload, has a type outside MessageType or a type the server takes from no agent is
\* answered by one ERROR envelope and nothing else happens: the registry and the store
\* are unchanged and the channel stays open, its handler waiting for the next message.
C23_MalformedMessageRejectedAlone ==
    [][\A c \in Channels, raw \in BadEnvelopes :
          LoopMessage(c, raw, FALSE) =>
            /\ AnsweredBy(c, ERROR)
            /\ connections' = connections
            /\ tokens' = tokens
            /\ chans'[c].open
            /\ chans'[c].pc = "loop"]_vars

\* the characters a secret may hold: alphanumerics and _ - . = + /
AllowedInSecret == Letters \cup Digits \cup {"_", "-", ".", "=", "+", "/"}

\* a secret that is absent, empty or blank, too short or too long after trimming, or
\* holds a character outside the allowed set
InvalidSecret(token) ==
    \/ token = None
    \/ Strip(token) = <<>>
    \/ Len(Strip(token)) < MIN_TOKEN_LENGTH
    \/ Len(Strip(token)) > MAX_TOKEN_LENGTH
    \/ \E i \in 1..Len(Strip(token)) : Strip(token)[i] \notin AllowedInSecret

\* the step is the call create_or_update(token, user_id); the record of the call is
\* compared first
CalledWith(token, user_id) ==
    /\ lastCall'.seq = lastCall.seq + 1
    /\ lastCall'.token = (IF token = None THEN None ELSE Strip(token))
    /\ lastCall'.key = CallKey(user_id, None)
    /\ CreateOrUpdate(token, user_id, None, None, AGENT, FALSE)

\* the call is refused with a ValidationError that carries a reason, the store as it was
RefusedAsInvalid(token, user_id) ==
    /\ lastCall'.outcome = "ValidationError"
    /\ create_or_update_error_msg(token, user_id) # ""
    /\ tokens' = tokens

\* C24: create_or_update with an invalid secret (absent, empty, blank, shorter than 10 or
\* longer than 500 characters after trimming, or with a character outside the allowed
\* set) or an invalid subject (absent, empty, blank, or longer than 64 characters after
\* trimming) fails with ValidationError carrying a reason and leaves the store as it was.
C24_InvalidInputRefused ==
    [][\A token \in SecretInputs, user_id \in SubjectInputs :
          (/\ CalledWith(token, user_id)
           /\ \/ InvalidSecret(token)
              \/ user_id = None
              \/ Strip(user_id) = <<>>
              \/ Len(Strip(user_id)) > MAX_USER_ID_LENGTH) => RefusedAsInvalid(token, user_id)]_vars

\* a call was refused as invalid while the store holds a row
C24_Witness ==
    /\ lastCall.op = "create_or_update"
    /\ lastCall.outcome = "ValidationError"
    /\ tokens # {}

\* C24 as stated: a subject of more than 64 characters is refused, however many of them
\* are surrounding blanks.
C24_LongSubjectRefused ==
    [][\A token \in SecretInputs, user_id \in SubjectInputs :
          (/\ CalledWith(token, user_id)
           /\ \/ InvalidSecret(token)
              \/ user_id = None
              \/ Strip(user_id) = <<>>
              \/ Len(user_id) > MAX_USER_ID_LENGTH) => RefusedAsInvalid(token, user_id)]_vars

\* a call of the store is made in the step
StoreCalled == lastCall'.seq = lastCall.seq + 1

\* C25: a write of the store (create_or_update, delete, update_status,
\* update_last_active) that meets a storage failure ends as StorageError and the table
\* is what it was before the call; a call that is refused before it writes (invalid
\* input, id not found) meets no storage failure and changes nothing either.
C25_StorageFailureRolledBack ==
    [][StoreCalled =>
          /\ lastCall'.fault =>
                /\ lastCall'.outcome \in {"StorageError", "ValidationError", "NotFoundError"}
                /\ tokens' = tokens
          /\ lastCall'.outcome = "StorageError" => tokens' = tokens
          /\ \A token \in {S1, S2}, user_id \in UserIds, account \in AccountInputs :
                CreateOrUpdate(token, user_id, None, account, AGENT, TRUE) =>
                    lastCall'.outcome = "StorageError"
          /\ \A token_id \in Ids(tokens) :
                \/ Delete(token_id, TRUE)
                \/ UpdateLastActive(token_id, TRUE)
                \/ \E status \in TokenStatus : UpdateStatus(token_id, status, TRUE)
                => lastCall'.outcome = "StorageError"]_vars

\* an update of a stored row failed in its commit: the row still holds the first secret
C25_Witness ==
    /\ lastCall.op = "create_or_update"
    /\ lastCall.outcome = "StorageError"
    /\ lastCall.fault
    /\ lastCall.token = S2
    /\ \E r \in tokens : r.account = A1 /\ decrypt_token(r.token_value) = S1

\* C26: every non-empty text is encrypted to a ciphertext other than the text itself, and
\* decrypt applied to that ciphertext returns the text.
C26_RoundTrip ==
    /\ [](lastCall.op = "encrypt" /\ Truthy(lastCall.token) =>
            /\ lastCall.result.outcome = "ok"
            /\ lastCall.result.value # lastCall.token)
    /\ [][lastCall.op = "encrypt" /\ lastCall.result.outcome = "ok" /\ Decrypt(lastCall.result.value) =>
            lastCall'.result = Returns(lastCall.token)]_vars

\* decrypt has returned a text of MaxText characters from the ciphertext encrypt made of it
C26_Witness ==
    /\ lastCall.op = "decrypt"
    /\ lastCall.result.outcome = "ok"
    /\ Len(lastCall.result.value) = MaxText
    /\ lastCall.token = encrypt(ProcessKey, lastCall.result.value, lastCall.current_time, lastCall.iv).value
    /\ lastCall.token # lastCall.result.value

\* C27: encrypt raises on an empty text, and decrypt raises, and returns nothing, on a
\* ciphertext that is empty, malformed, altered, or made under another key.
C27_BadInputsRaise ==
    [][/\ Encrypt /\ ~Truthy(lastCall.token) => lastCall'.result.outcome = "ValueError"
       /\ \A encrypted_token \in {None, <<>>} \cup Malformed :
            Decrypt(encrypted_token) => lastCall'.result.outcome = "ValueError"
       /\ lastCall.op = "encrypt" /\ lastCall.result.outcome = "ok" =>
            \A encrypted_token \in Alterations(lastCall.result.value)
                                    \cup Inserted(lastCall.result.value, "!")
                                    \cup Foreign(lastCall.token) :
                Decrypt(encrypted_token) => lastCall'.result.outcome = "ValueError"]_vars

\* C28: mask_token returns "****" for no secret, the empty secret and every secret of at most
\* 16 characters; for a longer one it returns 19 characters: the first 8 of the secret,
\* "...", and the last 8 of the secret, and so none of the characters between them.
C28_MaskShowsEightAndEight ==
    [](lastCall.op = "mask_token" =>
        LET token == lastCall.token
            masked == lastCall.result.value
        IN  /\ lastCall.result.outcome = "ok"
            /\ IF token = None \/ Len(token) <= 16
               THEN masked = <<"*", "*", "*", "*">>
               ELSE /\ Len(masked) = 8 + 3 + 8
                    /\ \A i \in 1..8 : masked[i] = token[i]
                    /\ \A i \in 9..11 : masked[i] = "."
                    /\ \A i \in 1..8 : masked[11 + i] = token[Len(token) - 8 + i])

\* a secret of 17 characters has been masked: its ninth character is not shown
C28_Witness ==
    /\ lastCall.op = "mask_token"
    /\ Len(lastCall.token) = 17
    /\ lastCall.token = Counted(17, 0)
    /\ lastCall.result.value = <<"1", "2", "3", "4", "5", "6", "7", "8", ".", ".", ".",
                                 "0", "1", "2", "3", "4", "5", "6", "7">>

\* the step is the call of notify_all_expired_tokens, or a later step of the call
NotifyAllCalled == keeper'.calls = keeper.calls + 1
NotifyAllResumed == keeper.pc = "notifying" /\ keeper' # keeper

\* the attempts of a log that were delivered
Delivered(log) == Cardinality({j \in 1..Len(log) : log[j].result = "sent"})

\* the TOKEN_EXPIRED envelopes the channels were sent
ExpiredNotices(chs, c) == Cardinality({j \in 1..Len(chs[c].sent) : chs[c].sent[j].type = TOKEN_EXPIRED})

\* C29: notify_all_expired_tokens, when its read of the table succeeds, takes exactly the
\* rows that are EXPIRED when it is called, each once and no ACTIVE one; it makes one
\* attempt per row, for the row's subject, in the order of the rows; an attempt for a
\* subject without connection fails and the call goes on; a delivered attempt is one
\* TOKEN_EXPIRED envelope on the channel of the subject's connection; the call returns
\* the number of delivered attempts; no step of the call changes the table.
C29_NotifyAllExpired ==
    /\ [][/\ (NotifyAllCalled /\ ~keeper'.fault) =>
                /\ {keeper'.expired_tokens[j].id : j \in 1..Len(keeper'.expired_tokens)}
                        = {r.id : r \in {q \in tokens : q.status = EXPIRED}}
                /\ Len(keeper'.expired_tokens) = Cardinality({q \in tokens : q.status = EXPIRED})
                /\ \A j \in 1..Len(keeper'.expired_tokens) :
                        RowOf(tokens, keeper'.expired_tokens[j].id).status # ACTIVE
          /\ (NotifyAllCalled \/ NotifyAllResumed) =>
                /\ tokens' = tokens
                /\ keeper'.pc \in {"notifying", "returned"}
          /\ NotifyAllResumed =>
                /\ Len(notifyLog') = Len(notifyLog) + (keeper'.i - keeper.i)
                /\ notifyLog'[Len(notifyLog) + 1].user_id = keeper.send[1].user_id
                /\ \A c \in Channels :
                        ExpiredNotices(chans', c) - ExpiredNotices(chans, c) =
                            IF c = keeper.send[1].websocket
                            THEN Delivered(<<notifyLog'[Len(notifyLog) + 1]>>) ELSE 0
                /\ Delivered(<<notifyLog'[Len(notifyLog) + 1]>>) = 1 =>
                        LastSent(chans', keeper.send[1].websocket)
                            = Envelope(TOKEN_EXPIRED, keeper.send[1].user_id)]_vars
    /\ [](keeper.pc = "returned" /\ ~keeper.fault =>
            /\ Len(notifyLog) = Len(keeper.expired_tokens)
            /\ \A j \in 1..Len(notifyLog) :
                    notifyLog[j].user_id = RowOf(tokens, keeper.expired_tokens[j].id).user_id
            /\ keeper.result = Delivered(notifyLog))

\* the call has returned 1: of two expired credentials one subject was notified and the
\* other had no connection, and both rows are still EXPIRED
C29_Witness ==
    /\ keeper.pc = "returned"
    /\ keeper.result = 1
    /\ Len(notifyLog) = 2
    /\ \E j \in 1..2 : notifyLog[j].result = "no_connection"
    /\ \E j \in 1..2 : notifyLog[j].result = "sent"
    /\ \A r \in tokens : r.status = EXPIRED

\* the cycles loop task i has begun
CyclesBegun(i) == IF i <= Len(sched.tasks) THEN sched.tasks[i].cycles ELSE 0

\* loop task i sleeps after one of its cycles raised, the service running, n cycles begun
SleepsAfterError(i, n) ==
    /\ i <= Len(sched.tasks)
    /\ sched.tasks[i].raised
    /\ sched.tasks[i].pc = "sleeping"
    /\ sched.tasks[i].cycles = n
    /\ sched.running

\* the heartbeat task sleeps after one of its sweeps raised, the checker running, n sweeps begun
CheckerSleepsAfterError(n) ==
    /\ sweep.raised
    /\ sweep.pc = "sleeping"
    /\ sweep.sweeps = n
    /\ sweep.running

\* C30: a keep-alive cycle or a heartbeat sweep that raises does not end its loop: while
\* the service is running the task goes back to its sleep, and from that sleep a further
\* cycle (sweep) begins unless the service is stopped first.
C30_LoopsSurviveErrors ==
    /\ [][/\ \A i \in 1..MaxTasks :
                (CycleRaise(i) /\ sched.running) =>
                    /\ Live(sched'.tasks[i])
                    /\ sched'.tasks[i].pc = "sleeping"
                    /\ sched'.running
          /\ (sweep.pc = "sweeping" /\ SweepEnd(TRUE) /\ sweep.running) =>
                /\ sweep'.pc = "sleeping"
                /\ sweep'.running]_vars
    /\ \A i \in 1..MaxTasks : \A n \in 0..(MaxLoopCycles - 1) :
            SleepsAfterError(i, n) ~> (CyclesBegun(i) > n \/ ~sched.running)
    /\ \A n \in 0..(MaxLoopCycles - 1) :
            CheckerSleepsAfterError(n) ~> (sweep.sweeps > n \/ ~sweep.running)

\* a loop task is in its second cycle after its first one raised, and so is the heartbeat
\* task in its second sweep
C30_Witness ==
    /\ sched.running
    /\ Len(sched.tasks) = 1
    /\ sched.tasks[1].raised
    /\ sched.tasks[1].pc = "cycle"
    /\ sched.tasks[1].cycles = 2
    /\ sweep.running
    /\ sweep.raised
    /\ sweep.pc = "sweeping"
    /\ sweep.sweeps = 2

----------------------------------------------------------------------------
(* The keep-alive cycle and the uploads racing it.                         *)

\* C31: a probe step of the keep-alive cycle moves a row from ACTIVE to EXPIRED only when
\* the probe came back rejected (HTTP 401 or 403), for an AGENT and for a NETWORK account:
\* after every other outcome (timeout, network error, 5xx, 2xx with any body) a row that
\* was ACTIVE is still ACTIVE.
C31_OnlyRejectionExpires ==
    [][ProbeStep =>
          \A r \in tokens :
              (r.status = ACTIVE /\ get_by_id(tokens', r.id) # {}
                  /\ RowOf(tokens', r.id).status # ACTIVE)
                => Rejected(keeper'.last.resp)]_vars

\* the same for the probes of AGENT accounts alone
C31_AgentOnlyRejectionExpires ==
    [][(ProbeStep /\ keeper'.last.account_type = AGENT) =>
          \A r \in tokens :
              (r.status = ACTIVE /\ get_by_id(tokens', r.id) # {}
                  /\ RowOf(tokens', r.id).status # ACTIVE)
                => Rejected(keeper'.last.resp)]_vars

\* the rows of tokens' whose last_active_at is not what the row of that id had in tokens
Touched == {r \in tokens' : get_by_id(tokens, r.id) # {}
                              /\ RowOf(tokens, r.id).last_active_at # r.last_active_at}

\* C32: a row's last_active_at is null when the row is created, and it changes only in
\* the step of a probe of that row that succeeded: a probe that came back inconclusive or
\* rejected, and every step that is not a probe, leaves every row's last_active_at as it
\* was.
C32_LastActiveOnlyOnSuccess ==
    [][/\ \A r \in tokens' : get_by_id(tokens, r.id) = {} => r.last_active_at = NoTime
       /\ \A r \in Touched :
             /\ ProbeStep
             /\ keeper'.last.id = r.id
             /\ Succeeded(keeper'.last.account_type, keeper'.last.resp)]_vars

\* the same, where the probe that changes last_active_at is any probe that was not
\* rejected: one that succeeded or one that came back inconclusive
C32_LastActiveNotOnRejection ==
    [][/\ \A r \in tokens' : get_by_id(tokens, r.id) = {} => r.last_active_at = NoTime
       /\ \A r \in Touched :
             /\ ProbeStep
             /\ keeper'.last.id = r.id
             /\ is_valid(keeper'.last.account_type, keeper'.last.resp)]_vars

\* the handler of channel c ends in this step (its finally clause has run)
HandlerEnds(c) == chans[c].pc \in {"accepted", "loop"} /\ chans'[c].pc = "done"

\* C33: when the handler of a channel registered under an extension id ends while the
\* registry entry of that id refers to another (newer) channel, its cleanup leaves that
\* entry in the registry as it was and does not close the newer channel.
C33_OldHandlerLeavesNewConnection ==
    [][\A c \in Channels :
          LET extension_id == chans[c].extension_id
          IN  (/\ HandlerEnds(c)
               /\ Truthy(extension_id)
               /\ Has(connections, extension_id)
               /\ Lookup(connections, extension_id).websocket # c) =>
                 LET new == Lookup(connections, extension_id).websocket
                 IN  /\ Has(connections', extension_id)
                     /\ Lookup(connections', extension_id) = Lookup(connections, extension_id)
                     /\ chans'[new].open = chans[new].open]_vars

\* no entry of the registry that refers to a channel other than failed is removed or has
\* its channel closed in this step
OnlyEvicts(failed) ==
    \A j \in 1..Len(connections) :
        connections[j].websocket \notin failed =>
            /\ Has(connections', connections[j].extension_id)
            /\ Lookup(connections', connections[j].extension_id) = connections[j]
            /\ chans'[connections[j].websocket].open = chans[connections[j].websocket].open

\* the channels on which a send of the broadcast under way has failed
BroadcastFailed ==
    {bcast.attempts[j].websocket : j \in {n \in 1..Len(bcast.attempts) : bcast.attempts[n].result = "failed"}}

\* the step of send_to_extension in which send_json has raised
SendFailedStep ==
    /\ mgr.op = "send_to_extension"
    /\ mgr.result = "pending"
    /\ mgr'.result # "pending"
    /\ ~CanSend(chans, mgr.websocket)

\* C34, for send_to_extension: the step in which the send fails removes from the registry
\* no entry that refers to another channel than the one the send failed on.
C34_SendEvictsOnlyFailed == [][SendFailedStep => OnlyEvicts({mgr.websocket})]_vars

\* C34, for broadcast: the disconnects after the sends remove no entry that refers to
\* another channel than those a send failed on.
C34_BroadcastEvictsOnlyFailed ==
    [][(bcast.pc = "evicting" /\ bcast'.evicted # bcast.evicted) => OnlyEvicts(BroadcastFailed)]_vars

\* C34: a transport failure during send_to_extension or broadcast evicts only the
\* connection on which the send failed: an entry that the same extension id got by
\* registering again on another channel, after the lookup and before the eviction, stays
\* in the registry and its channel stays as it is.
C34_FailedSendEvictsOnlyThatConnection ==
    /\ C34_SendEvictsOnlyFailed
    /\ C34_BroadcastEvictsOnlyFailed

\* C35: the heartbeat sweep never evicts a connection that is fresh at the moment of the
\* eviction: every entry a disconnect of the sweep removes from the registry has, at that
\* moment, a last heartbeat older than 3 times the interval, also when the agent sent a
\* HEARTBEAT or registered again between the scan and the disconnect.
C35_SweepNeverEvictsFresh ==
    [][EvictStep =>
          \A j \in 1..Len(connections) :
              ~Has(connections', connections[j].extension_id) => Stale(connections[j], now)]_vars

\* the rows that this step moves from ACTIVE to EXPIRED
Marked == {r \in tokens : /\ r.status = ACTIVE
                          /\ get_by_id(tokens', r.id) # {}
                          /\ RowOf(tokens', r.id).status = EXPIRED}

\* C36: the keep-alive cycle marks a credential EXPIRED only on the probe of the secret
\* the row holds at the moment of the marking: a row whose secret was replaced by an
\* upload while the probe of the old secret was in flight is not moved to EXPIRED by
\* that probe's result.
C36_ExpiresOnlyTheProbedSecret ==
    [][ProbeStep =>
          \A r \in Marked :
              /\ ~decrypt_fails(r.token_value)
              /\ decrypt_token(r.token_value) = keeper.token]_vars

\* the step is a TOKEN_UPLOAD on channel c that was stored and acknowledged
UploadStored(c) ==
    /\ chans[c].pc = "loop"
    /\ Len(chans'[c].sent) = Len(chans[c].sent) + 1
    /\ chans'[c].sent[Len(chans'[c].sent)] = Envelope(TOKEN_ACK, Ack(TRUE))

\* C37: after an upload that was stored, the user id bound to the uploading connection is
\* the user_id of the row the upload created or updated, also when the upload names an
\* account and a different userId, so that the lookup by the row's user_id that a later
\* expiry notice makes finds the uploading connection.
C37_BoundSubjectIsRowSubject ==
    [][\A c \in Channels :
          (UploadStored(c) /\ Has(connections', chans[c].extension_id)) =>
              \A r \in tokens' \ tokens :
                  /\ Lookup(connections', chans[c].extension_id).user_id = r.user_id
                  /\ BoundTo(connections', r.user_id) # {}]_vars

\* the step is one of run_keep_alive_cycle: its start, the return of a probe, or the
\* return of the send of a notice
CycleStep ==
    \/ keeper'.cycles # keeper.cycles
    \/ Len(keeper'.outcomes) # Len(keeper.outcomes)
    \/ keeper'.pc # keeper.pc

\* the ids the cycle under way fetched
Fetched == {keeper.active_tokens[j].id : j \in 1..Len(keeper.active_tokens)}

\* the ids the cycle under way fetched whose row has not been deleted since
FetchedAndKept ==
    {keeper.active_tokens[j].id :
        j \in {n \in 1..Len(keeper.active_tokens) : keeper.active_tokens[n].detached = <<>>}}

\* a step that inserts and deletes no row, changes no row's secret, owner, subject,
\* account or account type, moves no row to ACTIVE, and changes rows of the ids in
\* touchable only
CycleFrame(touchable) ==
    /\ Ids(tokens') = Ids(tokens)
    /\ \A r \in tokens :
          LET after == RowOf(tokens', r.id)
          IN  /\ after.token_value = r.token_value
              /\ after.extension_id = r.extension_id
              /\ after.user_id = r.user_id
              /\ after.account = r.account
              /\ after.account_type = r.account_type
              /\ after.status = ACTIVE => r.status = ACTIVE
              /\ after # r => r.id \in touchable

\* C38: a step of run_keep_alive_cycle creates and deletes no row, changes no row's
\* secret, owner or business key, moves no row from EXPIRED or INVALID to ACTIVE, and
\* changes only rows that the cycle fetched as ACTIVE: a row deleted while the cycle runs
\* is not inserted again, and a row stored after the fetch is left as it is.
C38_CycleFrame == [][CycleStep => CycleFrame(FetchedAndKept)]_vars

\* the same, where the rows the cycle may change are those whose id it fetched
C38_CycleFrameById == [][CycleStep => CycleFrame(Fetched)]_vars

\* the ACTIVE rows
ActiveRows(rows) == {r \in rows : r.status = ACTIVE}

\* C39: a cycle's total is the number of ACTIVE rows at its fetch; while it runs each
\* credential processed so far is counted in exactly one of success, expired and failed;
\* and when it returns, total = success + expired + failed, every fetched credential
\* having been counted once.
C39_CycleAccounting ==
    /\ [][keeper'.cycles # keeper.cycles =>
            /\ keeper'.cycle_stats.total = Cardinality(ActiveRows(tokens))
            /\ Len(keeper'.active_tokens) = Cardinality(ActiveRows(tokens))
            /\ {keeper'.active_tokens[j].id : j \in 1..Len(keeper'.active_tokens)}
                  = Ids(ActiveRows(tokens))]_vars
    /\ [](/\ keeper.cycle_stats.total = Len(keeper.active_tokens)
          /\ Len(keeper.outcomes) = keeper.i - 1
          /\ \A bucket \in {"success", "expired", "failed"} :
                keeper.cycle_stats[bucket] = Occurrences(keeper.outcomes, bucket)
          /\ keeper.cycle_stats.success + keeper.cycle_stats.expired + keeper.cycle_stats.failed
                = Len(keeper.outcomes)
          /\ keeper.pc = "done" =>
                /\ Len(keeper.outcomes) = keeper.cycle_stats.total
                /\ keeper.cycle_stats.total
                      = keeper.cycle_stats.success + keeper.cycle_stats.expired
                            + keeper.cycle_stats.failed)

\* a cycle over two credentials returned with one counted success and one expired
C39_Witness ==
    /\ keeper.pc = "done"
    /\ keeper.cycle_stats = [total |-> 2, success |-> 1, failed |-> 0, expired |-> 1]
    /\ Len(keeper.outcomes) = 2

----------------------------------------------------------------------------
(* The keep-alive loop with its cycles: _keep_alive_loop calling            *)
(* run_keep_alive_cycle, cycle after cycle, while credentials are uploaded  *)
(* and deleted; the service is started once and may be stopped.            *)

\* a counter that stops at its bound
UpTo(n, bound) == IF n < bound THEN n + 1 ELSE n

\* token_keeper.py lines 194-203 and 225-253: the sleep of loop task i is over; not running
\* breaks, else a cycle begins: it fetches the ACTIVE rows and goes up to the first probe,
\* or returns at once when nothing is to be probed
LoopWake(i) ==
    /\ i \in 1..Len(sched.tasks)
    /\ sched.tasks[i].pc = "sleeping"
    /\ ~sched.tasks[i].cancel
    /\ IF ~sched.running
       THEN /\ sched' = [sched EXCEPT !.tasks[i].pc = "ended"]
            /\ UNCHANGED <<keeper, notifyLog>>
       ELSE LET active_tokens == get_active_tokens(tokens)
                k == [KeeperIdle EXCEPT
                        !.active_tokens = [j \in DOMAIN active_tokens |-> Held(active_tokens[j])],
                        !.cycle_stats.total = Len(active_tokens),
                        !.cycles = UpTo(keeper.cycles, MaxCycles)]
                started == NextToken(k, tokens)
            IN  /\ keeper' = started
                /\ notifyLog' = <<>>
                /\ sched' = [sched EXCEPT
                                !.tasks[i].cycles = UpTo(@, MaxLoopCycles),
                                !.tasks[i].pc = IF started.pc = "done" THEN "sleeping" ELSE "cycle"]
    /\ UNCHANGED <<tokens, lastCall, connections, chans, now, sweep, deletePush, lock, mgr, bcast>>

\* the probe the cycle of loop task i awaits is back
LoopProbeReturn(i, resp, dbFail) ==
    /\ i \in 1..Len(sched.tasks)
    /\ sched.tasks[i].pc = "cycle"
    /\ ~sched.tasks[i].cancel
    /\ ProbeReturn(resp, dbFail)

\* lines 203 and 194: the cycle of loop task i has returned
LoopCycleReturn(i) ==
    /\ keeper.pc = "done"
    /\ CycleReturn(i)

\* what the source system answers in these runs
LoopResponses == {Http(401, "text"), Http(200, "succ"), Timeout}

NextExpiry ==
    \/ CreateOrUpdate(S1, U1, None, None, AGENT, FALSE)
    \/ CreateOrUpdate(S1, U1, None, A1, NETWORK, FALSE)
    \/ \E token_id \in 1..MaxId : Delete(token_id, FALSE)
    \/ sched.calls = 0 /\ Start
    \/ sched.running /\ Stop
    \/ StopReturn
    \/ \E i \in 1..MaxTasks :
        \/ CancelDelivered(i)
        \/ TaskBegin(i)
        \/ LoopWake(i)
        \/ \E resp \in LoopResponses, dbFail \in BOOLEAN : LoopProbeReturn(i, resp, dbFail)
        \/ LoopCycleReturn(i)

\* asyncio runs a task that was created, resumes a task whose sleep is over, and resumes
\* the cycle when the probe it awaits has come back or timed out
SpecExpiry ==
    /\ Init
    /\ [][NextExpiry]_vars
    /\ \A i \in 1..MaxTasks :
          /\ WF_vars(TaskBegin(i))
          /\ WF_vars(LoopWake(i))
          /\ WF_vars(\E resp \in LoopResponses, dbFail \in BOOLEAN : LoopProbeReturn(i, resp, dbFail))
          /\ WF_vars(LoopCycleReturn(i))

\* the row of id is stored and ACTIVE while the service is running, and n calls of the
\* store have been made from outside
ActiveAfter(id, n) ==
    /\ sched.running
    /\ lastCall.seq = n
    /\ \E r \in tokens : r.id = id /\ r.status = ACTIVE

\* the latest probe of the cycle under way was of the row of id, and it was not rejected
\* or the store refused the status update
ProbeNotConclusive(id) ==
    /\ keeper.last.i > 0
    /\ keeper.last.id = id
    /\ ~Rejected(keeper.last.resp) \/ keeper.last.fault

\* C40: while the service stays running, an ACTIVE credential that is not uploaded again
\* and not deleted, and whose every probe is rejected (and the status update stored),
\* eventually is EXPIRED: from a state where it is ACTIVE the run comes to a state where
\* it is EXPIRED, or it is gone, or the service is not running, or a call of the store
\* has been made from outside, or a probe of it was not rejected or its update not stored.
C40_RejectedEventuallyExpires ==
    \A id \in 1..MaxId : \A n \in 0..MaxCalls :
        ActiveAfter(id, n) ~>
            \/ \E r \in tokens : r.id = id /\ r.status = EXPIRED
            \/ get_by_id(tokens, id) = {}
            \/ ~sched.running
            \/ lastCall.seq > n
            \/ ProbeNotConclusive(id)

\* the loop task is in its second cycle, the probe of a credential was rejected in it, and
\* the credential is EXPIRED
C40_Witness ==
    /\ sched.running
    /\ Len(sched.tasks) = 1
    /\ sched.tasks[1].cycles = 2
    /\ keeper.last.i > 0
    /\ Rejected(keeper.last.resp)
    /\ ~keeper.last.fault
    /\ get_by_id(tokens, keeper.last.id) # {}
    /\ RowOf(tokens, keeper.last.id).status = EXPIRED

====
